---- MODULE Spec2Model ----
(***************************************************************************)
(* Versioned schema / migration engine of plasticine                       *)
(* (packages/plasticine/src/config/schema.ts).                             *)
(*                                                                         *)
(* A chain object is what schema() or createVersioned() returns.  Chain    *)
(* objects and the JavaScript arrays they close over live in two heaps     *)
(* (chains, arrays) so that sharing and mutation of an array are visible.  *)
(* A JSON object is abstracted to the set of keys it carries; a valibot    *)
(* object schema to the sequence of its required entries.                  *)
(***************************************************************************)
EXTENDS Integers, Sequences, FiniteSets, TLC

VARIABLES arrays, chains, call,      \* the chain objects and the last call on one
          collections, request,     \* the config made by defineConfig, its last call
          fs, options, mig,         \* the content directory and a run of migrate
          store,                    \* the CMS store, its backend and its pending calls
          client,                   \* a getAll call of the content client
          gh                        \* a saveFile call of the GitHub client

chainVars == <<arrays, chains, call>>
registryVars == <<collections, request>>
migrateVars == <<fs, options, mig>>
appVars == <<store, client, gh>>
vars == <<arrays, chains, call, collections, request, fs, options, mig,
          store, client, gh>>

\* Number of chain objects constructed in one run.
MaxChains == 3

-----------------------------------------------------------------------------
(* Input domains *)

Keys == {"slug", "title", "published"}

\* Raw values read from storage: objects, as the set of their keys.
Values == SUBSET Keys

\* object({slug}), object({slug, title}), object({slug, published})
Schemas == { <<"slug">>, <<"slug", "title">>, <<"slug", "published">> }

\* old => ({...old, published: false})   and   old => ({slug: old.slug})
Transforms == {"addPublished", "pickSlug"}

\* old => ({...old, title: old.title.trim()}): a transform that throws a
\* TypeError on a value without title
FaultTransforms == {"addPublished", "trimTitle"}

\* transform(value) throws
Throws(transform, value) ==
    transform = "trimTitle" /\ "title" \notin value

\* transform(value), when it returns
Call(transform, value) ==
    CASE transform = "addPublished" -> value \cup {"published"}
      [] transform = "pickSlug"     -> value \cap {"slug"}
      [] transform = "trimTitle"    -> value

Range(s) == { s[j] : j \in 1..Len(s) }

\* `issues` of a successful SafeParseResult
undefined == <<>>

\* v.safeParse(schema, value) for an object schema: one issue per missing
\* entry, in entry order; the output keeps the schema's entries only.
safeParse(schema, value) ==
    LET issues == SelectSeq(schema, LAMBDA k : k \notin value)
    IN  IF issues = <<>>
        THEN [success |-> TRUE,  output |-> value \cap Range(schema), issues |-> undefined]
        ELSE [success |-> FALSE, output |-> value, issues |-> issues]

-----------------------------------------------------------------------------
(* Outcome of one parse call: the value returned or the SchemaError thrown,
   with the safeParse calls (validated) and transform calls (calls) made. *)

Return(value, validated, calls) ==
    [threw |-> FALSE, error |-> "none", value |-> value, issues |-> <<>>,
     validated |-> validated, calls |-> calls]

\* throw new SchemaError(issues)
SchemaError(issues, validated) ==
    [threw |-> TRUE, error |-> "SchemaError", value |-> {}, issues |-> issues,
     validated |-> validated, calls |-> <<>>]

\* the exception of a transform, leaving parse uncaught
Uncaught(validated, calls) ==
    [threw |-> TRUE, error |-> "TypeError", value |-> {}, issues |-> <<>>,
     validated |-> validated, calls |-> calls]

NoResult == Return({}, <<>>, <<>>)

\* Faulty variant of schema.parse: the error is built from the (empty) list
\* of historical results, as createVersioned.parse builds it.
schema_parse_noIssueList(initialSchema, value) ==
    LET result == safeParse(initialSchema, value)
    IN  IF result.success
        THEN Return(result.output, <<initialSchema>>, <<>>)
        ELSE SchemaError(<<>>, <<initialSchema>>)

\* schema(initialSchema).parse(value)
schema_parse(initialSchema, value) ==
    LET result == safeParse(initialSchema, value)
    IN  IF result.success
        THEN Return(result.output, <<initialSchema>>, <<>>)
        ELSE SchemaError(<<result.issues>>, <<initialSchema>>)

\* Faulty variant of forVersions: the loop has no break, every version is
\* validated and pushed.
RECURSIVE forVersions_noBreak(_, _, _, _)
forVersions_noBreak(versions, value, k, versionResults) ==
    IF k > Len(versions)
    THEN [versionResults |-> versionResults,
          foundValidVersion |->
              \E j \in 1..Len(versionResults) : versionResults[j].success]
    ELSE LET version == versions[k]
             versionResult == safeParse(version.schema, value)
         IN  forVersions_noBreak(versions, value, k + 1,
                 Append(versionResults,
                        [schema |-> version.schema,
                         transform |-> version.transform,
                         success |-> versionResult.success,
                         output |-> versionResult.output,
                         issues |-> versionResult.issues]))

\* Faulty variant of forVersions: the loop breaks before the matching version
\* is pushed, so the replay starts at the entry after the match.
RECURSIVE forVersions_breakBeforePush(_, _, _, _)
forVersions_breakBeforePush(versions, value, k, versionResults) ==
    IF k > Len(versions)
    THEN [versionResults |-> versionResults, foundValidVersion |-> FALSE]
    ELSE LET version == versions[k]
             versionResult == safeParse(version.schema, value)
         IN  IF versionResult.success
             THEN [versionResults |-> versionResults, foundValidVersion |-> TRUE]
             ELSE forVersions_breakBeforePush(versions, value, k + 1,
                      Append(versionResults,
                             [schema |-> version.schema,
                              transform |-> version.transform,
                              success |-> versionResult.success,
                              output |-> versionResult.output,
                              issues |-> versionResult.issues]))

\* for (const version of versions) { ...; if (success) break }
RECURSIVE forVersions(_, _, _, _)
forVersions(versions, value, k, versionResults) ==
    IF k > Len(versions)
    THEN [versionResults |-> versionResults, foundValidVersion |-> FALSE]
    ELSE LET version == versions[k]
             versionResult == safeParse(version.schema, value)
             pushed == Append(versionResults,
                              [schema |-> version.schema,
                               transform |-> version.transform,
                               success |-> versionResult.success,
                               output |-> versionResult.output,
                               issues |-> versionResult.issues])
         IN  IF versionResult.success
             THEN [versionResults |-> pushed, foundValidVersion |-> TRUE]
             ELSE forVersions(versions, value, k + 1, pushed)

\* Faulty variant of toReversed: the array is used in push order.
toReversed_notReversed(array) == array

\* Array.prototype.toReversed
toReversed(array) ==
    [j \in 1..Len(array) |-> array[Len(array) + 1 - j]]

\* Faulty variant of reduce: the matched entry's own transform is skipped.
RECURSIVE reduce_skipsMatched(_, _, _)
reduce_skipsMatched(array, val, calls) ==
    LET RECURSIVE go(_, _, _)
        go(rest, v, cs) ==
            IF rest = <<>>
            THEN [threw |-> FALSE, value |-> v, calls |-> cs]
            ELSE LET made == Append(cs, [transform |-> Head(rest).transform, value |-> v])
                 IN  IF Throws(Head(rest).transform, v)
                     THEN [threw |-> TRUE, value |-> v, calls |-> made]
                     ELSE go(Tail(rest), Call(Head(rest).transform, v), made)
    IN  IF array = <<>> THEN go(array, val, calls) ELSE go(Tail(array), val, calls)

\* Faulty variant of reduce: the callback catches the exception of a
\* transform and carries the value on unchanged.
RECURSIVE reduce_catches(_, _, _)
reduce_catches(array, val, calls) ==
    IF array = <<>>
    THEN [threw |-> FALSE, value |-> val, calls |-> calls]
    ELSE reduce_catches(Tail(array),
             IF Throws(Head(array).transform, val)
             THEN val
             ELSE Call(Head(array).transform, val),
             Append(calls, [transform |-> Head(array).transform, value |-> val]))

\* array.reduce((val, { transform }) => transform(val), value); an exception
\* of the callback ends the reduction and leaves it
RECURSIVE reduce(_, _, _)
reduce(array, val, calls) ==
    IF array = <<>>
    THEN [threw |-> FALSE, value |-> val, calls |-> calls]
    ELSE LET made == Append(calls, [transform |-> Head(array).transform, value |-> val])
         IN  IF Throws(Head(array).transform, val)
             THEN [threw |-> TRUE, value |-> val, calls |-> made]
             ELSE reduce(Tail(array), Call(Head(array).transform, val), made)

\* versionResults.map(({ issues }) => issues).filter(v => v !== undefined)
definedIssues(versionResults) ==
    SelectSeq([j \in 1..Len(versionResults) |-> versionResults[j].issues],
              LAMBDA v : v # undefined)

\* Faulty variant of createVersioned.parse: the historical versions are tried
\* before the current schema.
createVersioned_parse_historyFirst(versions, currentSchema, value) ==
    LET loop == forVersions(versions, value, 1, <<>>)
        versionResults == loop.versionResults
        validated == [j \in 1..Len(versionResults) |-> versionResults[j].schema]
    IN  IF loop.foundValidVersion
        THEN LET migrated == reduce(toReversed(versionResults), value, <<>>)
             IN  IF migrated.threw
                 THEN Uncaught(validated, migrated.calls)
                 ELSE Return(migrated.value, validated, migrated.calls)
        ELSE LET result == safeParse(currentSchema, value)
             IN  IF result.success
                 THEN Return(result.output, Append(validated, currentSchema), <<>>)
                 ELSE SchemaError(definedIssues(versionResults),
                                  Append(validated, currentSchema))

\* Variant of createVersioned.parse that validates the migrated value against
\* the current schema and throws when it does not conform.
createVersioned_parse_revalidates(versions, currentSchema, value) ==
    LET result == safeParse(currentSchema, value)
    IN  IF result.success
        THEN Return(result.output, <<currentSchema>>, <<>>)
        ELSE LET loop == forVersions(versions, value, 1, <<>>)
                 versionResults == loop.versionResults
                 validated == <<currentSchema>> \o
                     [j \in 1..Len(versionResults) |-> versionResults[j].schema]
             IN  IF loop.foundValidVersion
                 THEN LET migrated == reduce(toReversed(versionResults), value, <<>>)
                          final == safeParse(currentSchema, migrated.value)
                      IN  IF migrated.threw
                          THEN Uncaught(validated, migrated.calls)
                          ELSE IF final.success
                          THEN Return(final.output, Append(validated, currentSchema),
                                      migrated.calls)
                          ELSE SchemaError(<<final.issues>>,
                                           Append(validated, currentSchema))
                 ELSE SchemaError(definedIssues(versionResults), validated)

\* Faulty variant of createVersioned.parse: the replay starts from the
\* validation output of the matched historical schema.
createVersioned_parse_replaysOutput(versions, currentSchema, value) ==
    LET result == safeParse(currentSchema, value)
    IN  IF result.success
        THEN Return(result.output, <<currentSchema>>, <<>>)
        ELSE LET loop == forVersions(versions, value, 1, <<>>)
                 versionResults == loop.versionResults
                 validated == <<currentSchema>> \o
                     [j \in 1..Len(versionResults) |-> versionResults[j].schema]
             IN  IF loop.foundValidVersion
                 THEN LET matched == versionResults[Len(versionResults)]
                          migrated == reduce(toReversed(versionResults),
                                             matched.output, <<>>)
                      IN  IF migrated.threw
                          THEN Uncaught(validated, migrated.calls)
                          ELSE Return(migrated.value, validated, migrated.calls)
                 ELSE SchemaError(definedIssues(versionResults), validated)

\* createVersioned(versions, currentSchema).parse(value)
createVersioned_parse(versions, currentSchema, value) ==
    LET result == safeParse(currentSchema, value)
    IN  IF result.success
        THEN Return(result.output, <<currentSchema>>, <<>>)
        ELSE LET loop == forVersions(versions, value, 1, <<>>)
                 versionResults == loop.versionResults
                 validated == <<currentSchema>> \o
                     [j \in 1..Len(versionResults) |-> versionResults[j].schema]
             IN  IF loop.foundValidVersion
                 THEN LET migrated == reduce(toReversed(versionResults), value, <<>>)
                      IN  IF migrated.threw
                          THEN Uncaught(validated, migrated.calls)
                          ELSE Return(migrated.value, validated, migrated.calls)
                 ELSE SchemaError(definedIssues(versionResults), validated)

-----------------------------------------------------------------------------
(* Chain objects *)

\* the object literal returned by schema(): it closes over initialSchema only
schemaObject(initialSchema) ==
    [maker |-> "schema", versions |-> 0, schema |-> initialSchema]

\* the object literal returned by createVersioned(versions, currentSchema);
\* versions is a reference into the array heap
createVersioned(versions, currentSchema) ==
    [maker |-> "createVersioned", versions |-> versions, schema |-> currentSchema]

\* chain.parse(value), for a chain object of heap chs over array heap arrs
Parse(arrs, chs, self, value) ==
    IF chs[self].maker = "schema"
    THEN schema_parse(chs[self].schema, value)
    ELSE createVersioned_parse(arrs[chs[self].versions], chs[self].schema, value)

NoCall ==
    [op |-> "none", self |-> 0, value |-> {}, newSchema |-> <<>>,
     transform |-> "", ret |-> 0, result |-> NoResult]

\* no config defined yet
NoObject == [defined |-> FALSE, order |-> <<>>, value |-> <<>>]

NoRequest ==
    [op |-> "none", collection |-> "", data |-> {}, result |-> NoResult,
     schema |-> [kind |-> "undefined", schema |-> <<>>], keys |-> <<>>]

\* no summary printed
NoSummary ==
    [printed |-> FALSE, totalFiles |-> 0, migrated |-> 0, errors |-> 0,
     upToDate |-> 0, dryRunNotice |-> FALSE]

\* no content directory, migrate not started
NoFiles == <<>>
NoOptions == [dryRun |-> FALSE]
NoRun ==
    [pc |-> "idle", names |-> <<>>, ci |-> 0, jsonFiles |-> <<>>, fi |-> 0,
     totalFiles |-> 0, migratedFiles |-> 0, errorFiles |-> 0,
     writes |-> <<>>, reports |-> <<>>,
     summary |-> NoSummary, previous |-> NoSummary]

\* no store created, no client call, no saveFile call
NoStore == <<>>
NoClient == <<>>
NoSaveFile == <<>>

Init ==
    /\ arrays = <<>>
    /\ chains = <<>>
    /\ call = NoCall
    /\ collections = NoObject
    /\ request = NoRequest
    /\ fs = NoFiles
    /\ options = NoOptions
    /\ mig = NoRun
    /\ store = NoStore
    /\ client = NoClient
    /\ gh = NoSaveFile

\* schema(initialSchema)
schema(initialSchema) ==
    /\ Len(chains) < MaxChains
    /\ chains' = Append(chains, schemaObject(initialSchema))
    /\ UNCHANGED arrays
    /\ call' = [NoCall EXCEPT !.op = "schema", !.newSchema = initialSchema,
                              !.ret = Len(chains) + 1]
    /\ UNCHANGED <<registryVars, migrateVars, appVars>>

\* schema(...).version(newSchema, transform)
schema_version(self, newSchema, transform) ==
    /\ Len(chains) < MaxChains
    /\ chains[self].maker = "schema"
    /\ arrays' = Append(arrays, <<[schema |-> chains[self].schema, transform |-> transform]>>)
    /\ chains' = Append(chains, createVersioned(Len(arrays) + 1, newSchema))
    /\ call' = [NoCall EXCEPT !.op = "version", !.self = self, !.newSchema = newSchema,
                              !.transform = transform, !.ret = Len(chains) + 1]
    /\ UNCHANGED <<registryVars, migrateVars, appVars>>

\* Faulty variant of createVersioned.version: the new entry is unshifted into
\* the receiver's own versions array, which the new chain then shares.
createVersioned_version_unshift(self, newSchema, transform) ==
    /\ Len(chains) < MaxChains
    /\ chains[self].maker = "createVersioned"
    /\ arrays' = [arrays EXCEPT ![chains[self].versions] =
                      <<[schema |-> chains[self].schema, transform |-> transform]>> \o @]
    /\ chains' = Append(chains, createVersioned(chains[self].versions, newSchema))
    /\ call' = [NoCall EXCEPT !.op = "version", !.self = self, !.newSchema = newSchema,
                              !.transform = transform, !.ret = Len(chains) + 1]
    /\ UNCHANGED <<registryVars, migrateVars, appVars>>

\* Faulty variant of createVersioned.version: the new entry records the new
\* schema instead of the receiver's current schema.
createVersioned_version_newSchema(self, newSchema, transform) ==
    /\ Len(chains) < MaxChains
    /\ chains[self].maker = "createVersioned"
    /\ arrays' = Append(arrays,
                        <<[schema |-> newSchema, transform |-> transform]>>
                            \o arrays[chains[self].versions])
    /\ chains' = Append(chains, createVersioned(Len(arrays) + 1, newSchema))
    /\ call' = [NoCall EXCEPT !.op = "version", !.self = self, !.newSchema = newSchema,
                              !.transform = transform, !.ret = Len(chains) + 1]
    /\ UNCHANGED <<registryVars, migrateVars, appVars>>

\* createVersioned(...).version(newSchema, transform)
createVersioned_version(self, newSchema, transform) ==
    /\ Len(chains) < MaxChains
    /\ chains[self].maker = "createVersioned"
    /\ arrays' = Append(arrays,
                        <<[schema |-> chains[self].schema, transform |-> transform]>>
                            \o arrays[chains[self].versions])
    /\ chains' = Append(chains, createVersioned(Len(arrays) + 1, newSchema))
    /\ call' = [NoCall EXCEPT !.op = "version", !.self = self, !.newSchema = newSchema,
                              !.transform = transform, !.ret = Len(chains) + 1]
    /\ UNCHANGED <<registryVars, migrateVars, appVars>>

\* Faulty variant of parse: the chain's own versions array is reversed in
\* place (Array.prototype.reverse) instead of a reversed copy being made.
parse_reversesVersions(self, value) ==
    /\ call' = [NoCall EXCEPT !.op = "parse", !.self = self, !.value = value,
                              !.result = Parse(arrays, chains, self, value)]
    /\ arrays' = IF chains[self].maker = "createVersioned"
                 THEN [arrays EXCEPT ![chains[self].versions] =
                           [j \in 1..Len(@) |-> @[Len(@) + 1 - j]]]
                 ELSE arrays
    /\ UNCHANGED <<chains, registryVars, migrateVars, appVars>>

\* chain.parse(value)
parse(self, value) ==
    /\ call' = [NoCall EXCEPT !.op = "parse", !.self = self, !.value = value,
                              !.result = Parse(arrays, chains, self, value)]
    /\ UNCHANGED <<arrays, chains, registryVars, migrateVars, appVars>>

Next ==
    \/ \E s \in Schemas : schema(s)
    \/ \E self \in 1..Len(chains), s \in Schemas, t \in Transforms :
           schema_version(self, s, t)
    \/ \E self \in 1..Len(chains), s \in Schemas, t \in Transforms :
           createVersioned_version(self, s, t)
    \/ \E self \in 1..Len(chains), value \in Values : parse(self, value)

Spec == Init /\ [][Next]_vars

\* The same program with chains whose transforms may throw.
NextFault ==
    \/ \E s \in Schemas : schema(s)
    \/ \E self \in 1..Len(chains), s \in Schemas, t \in FaultTransforms :
           schema_version(self, s, t)
    \/ \E self \in 1..Len(chains), s \in Schemas, t \in FaultTransforms :
           createVersioned_version(self, s, t)
    \/ \E self \in 1..Len(chains), value \in Values : parse(self, value)

SpecFault == Init /\ [][NextFault]_vars

-----------------------------------------------------------------------------
(* The earlier builder of src/src/lib.ts: schema() and version().  Its chain
   objects live in the same two heaps.                                     *)

\* schema(schema).parse(value): the output, or undefined when the value does
\* not conform (the function falls off its end, nothing is thrown)
lib_schema_parse(initialSchema, value) ==
    LET result == safeParse(initialSchema, value)
    IN  IF result.success
        THEN Return(result.output, <<initialSchema>>, <<>>)
        ELSE [Return({}, <<initialSchema>>, <<>>) EXCEPT !.error = "undefined"]

\* version(versions, schema).parse(value): lines 62-88, the same statements
\* as createVersioned(versions, currentSchema).parse
lib_version_parse(versions, currentSchema, value) ==
    createVersioned_parse(versions, currentSchema, value)

\* the object literal returned by schema(schema)
lib_schemaObject(initialSchema) ==
    [maker |-> "lib.schema", versions |-> 0, schema |-> initialSchema]

\* the object literal returned by version(versions, schema)
lib_versionObject(versions, currentSchema) ==
    [maker |-> "lib.version", versions |-> versions, schema |-> currentSchema]

lib_Parse(arrs, chs, self, value) ==
    IF chs[self].maker = "lib.schema"
    THEN lib_schema_parse(chs[self].schema, value)
    ELSE lib_version_parse(arrs[chs[self].versions], chs[self].schema, value)

\* schema(schema)
lib_schema(initialSchema) ==
    /\ Len(chains) < MaxChains
    /\ chains' = Append(chains, lib_schemaObject(initialSchema))
    /\ UNCHANGED arrays
    /\ call' = [NoCall EXCEPT !.op = "schema", !.newSchema = initialSchema,
                              !.ret = Len(chains) + 1]
    /\ UNCHANGED <<registryVars, migrateVars, appVars>>

\* schema(..).version(newSchema, transform):
\* version([{ schema, transform }], newSchema)
lib_schema_version(self, newSchema, transform) ==
    /\ Len(chains) < MaxChains
    /\ chains[self].maker = "lib.schema"
    /\ arrays' = Append(arrays, <<[schema |-> chains[self].schema, transform |-> transform]>>)
    /\ chains' = Append(chains, lib_versionObject(Len(arrays) + 1, newSchema))
    /\ call' = [NoCall EXCEPT !.op = "version", !.self = self, !.newSchema = newSchema,
                              !.transform = transform, !.ret = Len(chains) + 1]
    /\ UNCHANGED <<registryVars, migrateVars, appVars>>

\* version(..).version(schema, transform): the parameter named schema hides
\* the schema of the receiver, so
\* version([{ schema, transform }, ...versions], schema) records the new
\* schema in the new entry and makes it the current schema as well
lib_version_version(self, newSchema, transform) ==
    /\ Len(chains) < MaxChains
    /\ chains[self].maker = "lib.version"
    /\ arrays' = Append(arrays,
                        <<[schema |-> newSchema, transform |-> transform]>>
                            \o arrays[chains[self].versions])
    /\ chains' = Append(chains, lib_versionObject(Len(arrays) + 1, newSchema))
    /\ call' = [NoCall EXCEPT !.op = "version", !.self = self, !.newSchema = newSchema,
                              !.transform = transform, !.ret = Len(chains) + 1]
    /\ UNCHANGED <<registryVars, migrateVars, appVars>>

\* chain.parse(value)
lib_parse(self, value) ==
    /\ call' = [NoCall EXCEPT !.op = "parse", !.self = self, !.value = value,
                              !.result = lib_Parse(arrays, chains, self, value)]
    /\ UNCHANGED <<arrays, chains, registryVars, migrateVars, appVars>>

NextLib ==
    \/ \E s \in Schemas : lib_schema(s)
    \/ \E self \in 1..Len(chains), s \in Schemas, t \in Transforms :
           lib_schema_version(self, s, t)
    \/ \E self \in 1..Len(chains), s \in Schemas, t \in Transforms :
           lib_version_version(self, s, t)
    \/ \E self \in 1..Len(chains), value \in Values : lib_parse(self, value)

SpecLib == Init /\ [][NextLib]_vars


-----------------------------------------------------------------------------
(* The collection registry: defineConfig (config/define-config.ts, and the
   older defineConfig that keeps a map of the current schemas).

   A JavaScript object is kept as the sequence `order` of its own string
   keys in creation order and the mapping `value` of each to its value.     *)

\* Number of collections of a config.
MaxCollections == 2

\* collection names of a config; two of them are canonical array indices
Names == {"posts", "authors", "7", "2024"}

\* the integer-like keys, by ascending numeric value
IndexKeys == <<"7", "2024">>

\* members every object inherits from Object.prototype
ObjectPrototype == {"constructor"}

\* names a caller may ask for
LookupNames == Names \cup ObjectPrototype

\* The chains of the demo config: authors: schema(..), pages: schema(..),
\* posts: schema(..).version(.., old => ({...old, ...})).
DemoArrays == << << [schema |-> <<"slug">>, transform |-> "addPublished"] >> >>
DemoChains ==
    << schemaObject(<<"slug", "title">>),
       schemaObject(<<"slug">>),
       createVersioned(1, <<"slug", "published">>) >>

\* { name1: chain1, name2: chain2, ... }: the properties are created in the
\* order written (TypeScript rejects a literal that names a property twice)
ObjectLiteral(decl) ==
    [defined |-> TRUE,
     order |-> [j \in 1..Len(decl) |-> decl[j].name],
     value |-> [n \in { decl[j].name : j \in 1..Len(decl) } |->
                   decl[CHOOSE j \in 1..Len(decl) : decl[j].name = n].chain]]

OwnKeys(obj) == Range(obj.order)

\* Object.keys(obj): OrdinaryOwnPropertyKeys lists the integer-like keys
\* first, in ascending numeric order, then the other keys in creation order
ObjectKeys(obj) ==
    SelectSeq(IndexKeys, LAMBDA k : k \in OwnKeys(obj))
        \o SelectSeq(obj.order, LAMBDA k : k \notin Range(IndexKeys))

\* obj[key]: an own property, else a member of Object.prototype, else
\* undefined
Get(obj, key) ==
    IF key \in OwnKeys(obj) THEN "own"
    ELSE IF key \in ObjectPrototype THEN "inherited"
    ELSE "undefined"

\* throw new Error(`Unknown collection: ${collection}`)
UnknownCollection ==
    [threw |-> TRUE, error |-> "UnknownCollection", value |-> {}, issues |-> <<>>,
     validated |-> <<>>, calls |-> <<>>]

\* declarations of at most MaxCollections collections over the known chains
Decls ==
    LET Entry == [name : Names, chain : 1..Len(chains)]
    IN  { decl \in UNION { [1..n -> Entry] : n \in 0..MaxCollections } :
            \A i, j \in 1..Len(decl) : decl[i].name = decl[j].name => i = j }

\* defineConfig(collections)
defineConfig(decl) ==
    /\ ~collections.defined
    /\ collections' = ObjectLiteral(decl)
    /\ request' = [NoRequest EXCEPT !.op = "defineConfig"]
    /\ UNCHANGED <<chainVars, migrateVars, appVars>>

\* config.parseCollection(collection, data), on config object cfg
ParseCollection(arrs, chs, cfg, collection, data) ==
    LET versionedSchema == Get(cfg, collection)
    IN  IF versionedSchema = "undefined"
        THEN UnknownCollection
        ELSE IF versionedSchema = "inherited"
             THEN Uncaught(<<>>, <<>>)
             ELSE Parse(arrs, chs, cfg.value[collection], data)

\* config.parseCollection(collection, data)
parseCollection(collection, data) ==
    /\ collections.defined
    /\ request' = [NoRequest EXCEPT
           !.op = "parseCollection", !.collection = collection, !.data = data,
           !.result = ParseCollection(arrays, chains, collections, collection, data)]
    /\ UNCHANGED <<chainVars, collections, migrateVars, appVars>>

\* Faulty variant of getSchema: an unknown name raises, as in parseCollection.
getSchema_throws(collection) ==
    /\ collections.defined
    /\ request' = [NoRequest EXCEPT
           !.op = "getSchema", !.collection = collection,
           !.result = IF Get(collections, collection) = "own"
                      THEN NoResult ELSE UnknownCollection,
           !.schema = IF Get(collections, collection) = "own"
                      THEN [kind |-> "schema",
                            schema |-> chains[collections.value[collection]].schema]
                      ELSE [kind |-> "undefined", schema |-> <<>>]]
    /\ UNCHANGED <<chainVars, collections, migrateVars, appVars>>

\* config.getSchema(collection): collections[collection]?.schema
getSchema(collection) ==
    /\ collections.defined
    /\ request' = [NoRequest EXCEPT
           !.op = "getSchema", !.collection = collection,
           !.schema = IF Get(collections, collection) = "own"
                      THEN [kind |-> "schema",
                            schema |-> chains[collections.value[collection]].schema]
                      ELSE [kind |-> "undefined", schema |-> <<>>]]
    /\ UNCHANGED <<chainVars, collections, migrateVars, appVars>>

\* the older config.getSchema(collection): schemas[collection], where schemas
\* maps every name of Object.entries(collections) to its chain's schema
getSchema_schemas(collection) ==
    /\ collections.defined
    /\ request' = [NoRequest EXCEPT
           !.op = "getSchema_schemas", !.collection = collection,
           !.schema = CASE Get(collections, collection) = "own" ->
                               [kind |-> "schema",
                                schema |-> chains[collections.value[collection]].schema]
                        [] Get(collections, collection) = "inherited" ->
                               [kind |-> "inherited", schema |-> <<>>]
                        [] OTHER -> [kind |-> "undefined", schema |-> <<>>]]
    /\ UNCHANGED <<chainVars, collections, migrateVars, appVars>>

\* config.getCollections(): Object.keys(collections)
getCollections ==
    /\ collections.defined
    /\ request' = [NoRequest EXCEPT !.op = "getCollections",
                                    !.keys = ObjectKeys(collections)]
    /\ UNCHANGED <<chainVars, collections, migrateVars, appVars>>

InitConfig ==
    /\ arrays = DemoArrays
    /\ chains = DemoChains
    /\ call = NoCall
    /\ collections = NoObject
    /\ request = NoRequest
    /\ fs = NoFiles
    /\ options = NoOptions
    /\ mig = NoRun
    /\ store = NoStore
    /\ client = NoClient
    /\ gh = NoSaveFile

NextConfig ==
    \/ \E decl \in Decls : defineConfig(decl)
    \/ \E collection \in LookupNames, data \in Values : parseCollection(collection, data)
    \/ \E collection \in LookupNames : getSchema(collection)
    \/ \E collection \in LookupNames : getSchema_schemas(collection)
    \/ getCollections

SpecConfig == InitConfig /\ [][NextConfig]_vars

-----------------------------------------------------------------------------
(* The batch migration command (packages/cli/src/commands/migrate.ts).

   The content directory holds one entry per collection name: nothing, a
   plain file, or a directory of files.  The text of a file is kept as
   whether it is JSON at all, the value it denotes and its indentation, so
   that JSON.parse and JSON.stringify(_, null, 2) are not inverse to each
   other on texts.  `mig` is the position of a run of migrate, its three
   counters, the writeFile calls it made and the lines it logged.           *)

\* Number of entries of one collection directory.
MaxFiles == 2

\* the config the command imports: the demo's authors and posts
DemoConfig ==
    ObjectLiteral(<< [name |-> "authors", chain |-> 1],
                     [name |-> "posts", chain |-> 3] >>)

\* the entries a collection directory may hold, in the order readdir lists
\* them
FileNames ==
    << [stem |-> "a", ext |-> ".json"],
       [stem |-> "b", ext |-> ".json"],
       [stem |-> "notes", ext |-> ".md"] >>

NoFile == [stem |-> "", ext |-> ""]

\* f.endsWith(".json")
endsWithJson(f) == f.ext = ".json"

\* a text that is not JSON
NotJSON == [valid |-> FALSE, value |-> {}, indent |-> 0]

\* JSON.stringify(value, null, 2)
JSON_stringify(value) == [valid |-> TRUE, value |-> value, indent |-> 2]

\* the value JSON.parse(text) returns, for a text that is JSON
JSON_parse(text) == text.value

\* texts of the record files: the records of the demo, pretty-printed or
\* minified, and a text that is not JSON
Texts ==
    { JSON_stringify(value) :
          value \in { {"slug"}, {"slug", "title"}, {"slug", "published"}, {"title"} } }
        \cup { [valid |-> TRUE, value |-> {"slug", "published"}, indent |-> 0],
               NotJSON }

\* what join(contentPath, collectionName) may name
Directories ==
    LET NameSets == { S \in SUBSET Range(FileNames) : Cardinality(S) <= MaxFiles }
    IN  { [kind |-> "missing", files |-> <<>>], [kind |-> "file", files |-> <<>>] }
            \cup { [kind |-> "directory", files |-> files] :
                       files \in { f \in UNION { [S -> Texts] : S \in NameSets } :
                                     \A n \in DOMAIN f : ~endsWithJson(n) => f[n] = NotJSON } }

\* existsSync(collectionPath)
existsSync(entry) == entry.kind # "missing"

\* readdir(collectionPath), of a directory
readdir(entry) == SelectSeq(FileNames, LAMBDA n : n \in DOMAIN entry.files)

\* whether readFile and writeFile succeed on a file
IO == [read : BOOLEAN, write : BOOLEAN]

\* console.log of a line about a file or a collection
Line(collection, filename, kind, message) ==
    [collection |-> collection, filename |-> filename, kind |-> kind,
     message |-> message]

\* the catch block (lines 89-92), entered with what the try block did so far
Caught(message, collection, filename, sofar) ==
    [sofar EXCEPT !.errorFiles = 1,
                  !.logs = Append(@, Line(collection, filename, "error", message))]

Untouched ==
    [migratedFiles |-> 0, errorFiles |-> 0, logs |-> <<>>, writes |-> <<>>,
     stored |-> FALSE]

\* Faulty variant of the loop body: the file is written whenever its record
\* parsed, without comparing the two serialisations.
body_writesWithoutCompare(collectionName, filename, content, io) ==
    IF ~io.read
    THEN Caught("EACCES", collectionName, filename, Untouched)
    ELSE IF ~content.valid
    THEN Caught("SyntaxError", collectionName, filename, Untouched)
    ELSE LET original == JSON_parse(content)
             migrated == ParseCollection(arrays, chains, collections,
                                         collectionName, original)
             migratedStr == JSON_stringify(migrated.value)
             logged == [Untouched EXCEPT
                            !.migratedFiles = 1,
                            !.logs = <<Line(collectionName, filename, "migrated", "")>>]
             called == [logged EXCEPT
                            !.writes = << [collection |-> collectionName,
                                           filename |-> filename,
                                           data |-> migratedStr] >>]
         IN  IF migrated.threw
             THEN Caught(migrated.error, collectionName, filename, Untouched)
             ELSE IF options.dryRun THEN logged
             ELSE IF io.write THEN [called EXCEPT !.stored = TRUE]
             ELSE Caught("EACCES", collectionName, filename, called)

\* Faulty variant of the loop body: dryRun is not consulted before writeFile.
body_ignoresDryRun(collectionName, filename, content, io) ==
    IF ~io.read
    THEN Caught("EACCES", collectionName, filename, Untouched)
    ELSE IF ~content.valid
    THEN Caught("SyntaxError", collectionName, filename, Untouched)
    ELSE LET original == JSON_parse(content)
             migrated == ParseCollection(arrays, chains, collections,
                                         collectionName, original)
             originalStr == JSON_stringify(original)
             migratedStr == JSON_stringify(migrated.value)
             logged == [Untouched EXCEPT
                            !.migratedFiles = 1,
                            !.logs = <<Line(collectionName, filename, "migrated", "")>>]
             called == [logged EXCEPT
                            !.writes = << [collection |-> collectionName,
                                           filename |-> filename,
                                           data |-> migratedStr] >>]
         IN  IF migrated.threw
             THEN Caught(migrated.error, collectionName, filename, Untouched)
             ELSE IF originalStr # migratedStr
             THEN IF io.write THEN [called EXCEPT !.stored = TRUE]
                  ELSE Caught("EACCES", collectionName, filename, called)
             ELSE [Untouched EXCEPT
                       !.logs = <<Line(collectionName, filename, "upToDate", "")>>]

\* The body of the loop over jsonFiles (lines 67-92) for one file holding
\* content: the counters it increments, the lines it logs, the writeFile
\* call it makes and whether that call stored the data.
body(collectionName, filename, content, io) ==
    IF ~io.read
    THEN Caught("EACCES", collectionName, filename, Untouched)
    ELSE IF ~content.valid
    THEN Caught("SyntaxError", collectionName, filename, Untouched)
    ELSE LET original == JSON_parse(content)
             migrated == ParseCollection(arrays, chains, collections,
                                         collectionName, original)
             originalStr == JSON_stringify(original)
             migratedStr == JSON_stringify(migrated.value)
             logged == [Untouched EXCEPT
                            !.migratedFiles = 1,
                            !.logs = <<Line(collectionName, filename, "migrated", "")>>]
             called == [logged EXCEPT
                            !.writes = << [collection |-> collectionName,
                                           filename |-> filename,
                                           data |-> migratedStr] >>]
         IN  IF migrated.threw
             THEN Caught(migrated.error, collectionName, filename, Untouched)
             ELSE IF originalStr # migratedStr
             THEN IF options.dryRun THEN logged
                  ELSE IF io.write THEN [called EXCEPT !.stored = TRUE]
                  ELSE Caught("EACCES", collectionName, filename, called)
             ELSE [Untouched EXCEPT
                       !.logs = <<Line(collectionName, filename, "upToDate", "")>>]

\* the collection and the file the run is at
collectionName == mig.names[mig.ci]
filename == mig.jsonFiles[mig.fi]

\* migrate(options), up to the loop over config.getCollections()
migrate ==
    /\ mig.pc = "idle"
    /\ mig' = [mig EXCEPT !.pc = "collection",
                          !.names = ObjectKeys(collections), !.ci = 1]
    /\ UNCHANGED <<chainVars, registryVars, fs, options, appVars>>

\* if (!existsSync(collectionPath)) { ...; continue }
migrate_skip ==
    /\ mig.pc = "collection" /\ mig.ci <= Len(mig.names)
    /\ ~existsSync(fs[collectionName])
    /\ mig' = [mig EXCEPT
           !.ci = @ + 1,
           !.reports = Append(@, Line(collectionName, NoFile, "skipping", ""))]
    /\ UNCHANGED <<chainVars, registryVars, fs, options, appVars>>

\* await readdir(collectionPath) of a path that is no directory: the
\* rejection is not caught and ends migrate
migrate_readdir_rejects ==
    /\ mig.pc = "collection" /\ mig.ci <= Len(mig.names)
    /\ fs[collectionName].kind = "file"
    /\ mig' = [mig EXCEPT !.pc = "rejected"]
    /\ UNCHANGED <<chainVars, registryVars, fs, options, appVars>>

\* readdir, filter and the start of the loop over jsonFiles
migrate_readdir ==
    /\ mig.pc = "collection" /\ mig.ci <= Len(mig.names)
    /\ fs[collectionName].kind = "directory"
    /\ LET files == readdir(fs[collectionName])
           jsonFiles == SelectSeq(files, endsWithJson)
       IN  mig' = IF Len(jsonFiles) = 0
                  THEN [mig EXCEPT
                           !.ci = @ + 1,
                           !.reports = Append(@, Line(collectionName, NoFile,
                                                      "noJsonFiles", ""))]
                  ELSE [mig EXCEPT !.pc = "file", !.jsonFiles = jsonFiles, !.fi = 1]
    /\ UNCHANGED <<chainVars, registryVars, fs, options, appVars>>

\* Faulty variant of the iteration: an error of a file ends the run.
migrate_file_rethrows(io) ==
    /\ mig.pc = "file"
    /\ LET did == body(collectionName, filename, fs[collectionName].files[filename], io)
           last == mig.fi = Len(mig.jsonFiles)
       IN  /\ mig' = [mig EXCEPT
                  !.pc = IF did.errorFiles > 0 THEN "rejected"
                         ELSE IF last THEN "collection" ELSE "file",
                  !.ci = IF last THEN @ + 1 ELSE @,
                  !.fi = IF last THEN 0 ELSE @ + 1,
                  !.jsonFiles = IF last THEN <<>> ELSE @,
                  !.totalFiles = @ + 1,
                  !.migratedFiles = @ + did.migratedFiles,
                  !.errorFiles = @ + did.errorFiles,
                  !.writes = @ \o did.writes,
                  !.reports = @ \o did.logs]
           /\ fs' = IF did.stored
                    THEN [fs EXCEPT ![collectionName].files[filename] = did.writes[1].data]
                    ELSE fs
    /\ UNCHANGED <<chainVars, registryVars, options, appVars>>

\* one iteration of the loop over jsonFiles (lines 63-93)
migrate_file(io) ==
    /\ mig.pc = "file"
    /\ LET did == body(collectionName, filename, fs[collectionName].files[filename], io)
           last == mig.fi = Len(mig.jsonFiles)
       IN  /\ mig' = [mig EXCEPT
                  !.pc = IF last THEN "collection" ELSE "file",
                  !.ci = IF last THEN @ + 1 ELSE @,
                  !.fi = IF last THEN 0 ELSE @ + 1,
                  !.jsonFiles = IF last THEN <<>> ELSE @,
                  !.totalFiles = @ + 1,
                  !.migratedFiles = @ + did.migratedFiles,
                  !.errorFiles = @ + did.errorFiles,
                  !.writes = @ \o did.writes,
                  !.reports = @ \o did.logs]
           /\ fs' = IF did.stored
                    THEN [fs EXCEPT ![collectionName].files[filename] = did.writes[1].data]
                    ELSE fs
    /\ UNCHANGED <<chainVars, registryVars, options, appVars>>

\* the summary (lines 96-106)
migrate_summary ==
    /\ mig.pc = "collection" /\ mig.ci > Len(mig.names)
    /\ mig' = [mig EXCEPT
           !.pc = "done",
           !.summary = [printed |-> TRUE,
                        totalFiles |-> mig.totalFiles,
                        migrated |-> mig.migratedFiles,
                        errors |-> mig.errorFiles,
                        upToDate |-> mig.totalFiles - mig.migratedFiles - mig.errorFiles,
                        dryRunNotice |-> options.dryRun /\ mig.migratedFiles > 0]]
    /\ UNCHANGED <<chainVars, registryVars, fs, options, appVars>>

\* migrate is started on a content directory, with or without --dry-run
InitMigrate ==
    /\ arrays = DemoArrays
    /\ chains = DemoChains
    /\ call = NoCall
    /\ collections = DemoConfig
    /\ request = NoRequest
    /\ fs \in [OwnKeys(DemoConfig) -> Directories]
    /\ options \in [dryRun : BOOLEAN]
    /\ mig = NoRun
    /\ store = NoStore
    /\ client = NoClient
    /\ gh = NoSaveFile

NextMigrate ==
    \/ migrate
    \/ migrate_skip
    \/ migrate_readdir_rejects
    \/ migrate_readdir
    \/ \E io \in IO : migrate_file(io)
    \/ migrate_summary

SpecMigrate == InitMigrate /\ [][NextMigrate]_vars

\* migrate is run a second time, right after a run without --dry-run that
\* ended with no error, on the content directory as that run left it;
\* `previous` keeps the summary of the first run
migrate_again ==
    /\ mig.pc = "done"
    /\ ~mig.previous.printed
    /\ ~options.dryRun
    /\ mig.summary.errors = 0
    /\ mig' = [NoRun EXCEPT !.pc = "collection",
                            !.names = ObjectKeys(collections), !.ci = 1,
                            !.previous = mig.summary]
    /\ UNCHANGED <<chainVars, registryVars, fs, options, appVars>>

NextMigrateTwice ==
    \/ NextMigrate
    \/ migrate_again

SpecMigrateTwice == InitMigrate /\ [][NextMigrateTwice]_vars


-----------------------------------------------------------------------------
(* GitHubClient.saveFile (packages/plasticine/src/backend/github.ts).

   `gh` is one call of saveFile: where it waits, the loop counter, the sha
   it holds, and the requests it has made with what came back.             *)

\* const maxRetries = 3
maxRetries == 3

\* what a PUT may come back with: a status, or 0 for a fetch that rejects
Statuses == {200, 404, 409, 422, 500, 0}

\* the sha given by the caller and the shas a re-read may find
Shas == {"s0", "s1", "s2"}

\* before saveFile is called
Idle ==
    [pc |-> "idle", attempt |-> 0, sha |-> "undefined", currentSha |-> "undefined",
     puts |-> <<>>, statuses |-> <<>>, result |-> "none"]

\* the PUT request of the current attempt: body.sha is set only if
\* currentSha is truthy; reread says what the re-read before it did
Put(this, currentSha, reread) ==
    [this EXCEPT !.pc = "put",
                 !.currentSha = currentSha,
                 !.puts = Append(@, [attempt |-> this.attempt,
                                     sha |-> currentSha,
                                     reread |-> reread])]

\* saveFile(collection, filename, content, message, sha), up to the fetch of
\* attempt 0
saveFile(sha) ==
    /\ gh.pc = "idle"
    /\ gh' = Put([gh EXCEPT !.sha = sha], sha, "none")
    /\ UNCHANGED <<chainVars, registryVars, migrateVars, store, client>>

\* Faulty variant of the response handling: every error status is retried.
saveFile_response_retriesAll(status) ==
    /\ gh.pc = "put"
    /\ gh' = IF status = 200
             THEN [gh EXCEPT !.pc = "returned", !.statuses = Append(@, status),
                             !.result = "sha"]
             ELSE IF status # 0 /\ gh.attempt < maxRetries - 1
             THEN [gh EXCEPT !.pc = "wait", !.statuses = Append(@, status),
                             !.attempt = @ + 1]
             ELSE [gh EXCEPT !.pc = "threw", !.statuses = Append(@, status),
                             !.result = "Error"]
    /\ UNCHANGED <<chainVars, registryVars, migrateVars, store, client>>

\* the fetch of the PUT settles (lines 178-197)
saveFile_response(status) ==
    /\ gh.pc = "put"
    /\ gh' = IF status = 200
             THEN [gh EXCEPT !.pc = "returned", !.statuses = Append(@, status),
                             !.result = "sha"]
             ELSE IF status = 409 /\ gh.attempt < maxRetries - 1
             THEN [gh EXCEPT !.pc = "wait", !.statuses = Append(@, status),
                             !.attempt = @ + 1]
             ELSE [gh EXCEPT !.pc = "threw", !.statuses = Append(@, status),
                             !.result = "Error"]
    /\ UNCHANGED <<chainVars, registryVars, migrateVars, store, client>>

\* the timer of a retry fires (line 154): with a sha in hand the file is
\* re-read, without one the PUT is sent at once, without sha
saveFile_timeout ==
    /\ gh.pc = "wait"
    /\ gh' = IF gh.currentSha # "undefined"
             THEN [gh EXCEPT !.pc = "getFile"]
             ELSE Put(gh, "undefined", "none")
    /\ UNCHANGED <<chainVars, registryVars, migrateVars, store, client>>

\* the re-read settles (lines 158-164): found is the sha of the file, or
\* "undefined" when getFile threw
saveFile_getFile(found) ==
    /\ gh.pc = "getFile"
    /\ gh' = Put(gh, found, IF found = "undefined" THEN "failed" ELSE "read")
    /\ UNCHANGED <<chainVars, registryVars, migrateVars, store, client>>

InitSaveFile ==
    /\ arrays = <<>>
    /\ chains = <<>>
    /\ call = NoCall
    /\ collections = NoObject
    /\ request = NoRequest
    /\ fs = NoFiles
    /\ options = NoOptions
    /\ mig = NoRun
    /\ store = NoStore
    /\ client = NoClient
    /\ gh = Idle

NextSaveFile ==
    \/ \E sha \in {"undefined", "s0"} : saveFile(sha)
    \/ \E status \in Statuses : saveFile_response(status)
    \/ saveFile_timeout
    \/ \E found \in Shas \cup {"undefined"} : saveFile_getFile(found)

\* every fetch settles and every timer fires
SpecSaveFile == InitSaveFile /\ [][NextSaveFile]_vars /\ WF_vars(NextSaveFile)


-----------------------------------------------------------------------------
(* The content client (packages/plasticine/src/client.ts): getAll of one
   collection accessor.  `client` is one call: the ids listItems returned,
   one slot per id for the promise of ids.map's callback (Promise.all keeps
   them in the order of ids, whatever order they settle in), and what the
   call settled with.                                                      *)

\* Number of ids listItems returns.
MaxItems == 2

\* item ids of a collection
Ids == {"a", "b"}

NoGetAll ==
    [pc |-> "idle", name |-> "", ids |-> <<>>, slots |-> <<>>, items |-> <<>>,
     error |-> "none"]

Pending == [state |-> "pending", raw |-> {}, data |-> {}, error |-> "none"]

\* accessor.getAll(), up to await fetcher.listItems(name)
getAll(name) ==
    /\ client.pc = "idle"
    /\ client' = [client EXCEPT !.pc = "listItems", !.name = name]
    /\ UNCHANGED <<chainVars, registryVars, migrateVars, store, gh>>

\* listItems rejects: getAll rejects with it
getAll_listItems_rejects ==
    /\ client.pc = "listItems"
    /\ client' = [client EXCEPT !.pc = "rejected", !.error = "listItems"]
    /\ UNCHANGED <<chainVars, registryVars, migrateVars, store, gh>>

\* listItems resolves with ids: ids.map starts one getItem per id, and
\* Promise.all of no promise resolves at once
getAll_listItems(ids) ==
    /\ client.pc = "listItems"
    /\ client' = [client EXCEPT
           !.pc = IF ids = <<>> THEN "resolved" ELSE "getItem",
           !.ids = ids,
           !.slots = [j \in 1..Len(ids) |-> Pending]]
    /\ UNCHANGED <<chainVars, registryVars, migrateVars, store, gh>>

\* the promise of slot j after its getItem settled: rejected with the fetch
\* or with what parseCollection threw, else fulfilled with { id, data }
callback(name, fetched, raw) ==
    LET parsed == ParseCollection(arrays, chains, collections, name, raw)
    IN  IF ~fetched
        THEN [state |-> "rejected", raw |-> {}, data |-> {}, error |-> "getItem"]
        ELSE IF parsed.threw
        THEN [state |-> "rejected", raw |-> raw, data |-> {}, error |-> parsed.error]
        ELSE [state |-> "fulfilled", raw |-> raw, data |-> parsed.value,
              error |-> "none"]

\* Faulty variant of the settling of a getItem: the items are collected in
\* the order the callbacks finish.
getAll_getItem_completionOrder(j, fetched, raw) ==
    /\ client.pc \in {"getItem", "rejected"}
    /\ j \in 1..Len(client.slots)
    /\ client.slots[j].state = "pending"
    /\ LET slots == [client.slots EXCEPT ![j] = callback(client.name, fetched, raw)]
           collected == IF slots[j].state = "fulfilled"
                        THEN Append(client.items,
                                    [id |-> client.ids[j], data |-> slots[j].data])
                        ELSE client.items
       IN  client' =
               IF client.pc = "rejected"
               THEN [client EXCEPT !.slots = slots]
               ELSE IF slots[j].state = "rejected"
               THEN [client EXCEPT !.pc = "rejected", !.slots = slots,
                                   !.items = <<>>, !.error = slots[j].error]
               ELSE IF \A k \in 1..Len(slots) : slots[k].state = "fulfilled"
               THEN [client EXCEPT !.pc = "resolved", !.slots = slots,
                                   !.items = collected]
               ELSE [client EXCEPT !.slots = slots, !.items = collected]
    /\ UNCHANGED <<chainVars, registryVars, migrateVars, store, gh>>

\* the getItem of slot j settles, in any order among the pending ones:
\* Promise.all rejects with the first rejection and resolves, once every
\* promise is fulfilled, with the values in the order of ids; callbacks that
\* settle after a rejection change nothing the caller sees
getAll_getItem(j, fetched, raw) ==
    /\ client.pc \in {"getItem", "rejected"}
    /\ j \in 1..Len(client.slots)
    /\ client.slots[j].state = "pending"
    /\ LET slots == [client.slots EXCEPT ![j] = callback(client.name, fetched, raw)]
       IN  client' =
               IF client.pc = "rejected"
               THEN [client EXCEPT !.slots = slots]
               ELSE IF slots[j].state = "rejected"
               THEN [client EXCEPT !.pc = "rejected", !.slots = slots,
                                   !.error = slots[j].error]
               ELSE IF \A k \in 1..Len(slots) : slots[k].state = "fulfilled"
               THEN [client EXCEPT
                        !.pc = "resolved", !.slots = slots,
                        !.items = [k \in 1..Len(slots) |->
                                      [id |-> client.ids[k], data |-> slots[k].data]]]
               ELSE [client EXCEPT !.slots = slots]
    /\ UNCHANGED <<chainVars, registryVars, migrateVars, store, gh>>

\* createClient(config, fetcher) on the demo config
InitClient ==
    /\ arrays = DemoArrays
    /\ chains = DemoChains
    /\ call = NoCall
    /\ collections = DemoConfig
    /\ request = NoRequest
    /\ fs = NoFiles
    /\ options = NoOptions
    /\ mig = NoRun
    /\ store = NoStore
    /\ client = NoGetAll
    /\ gh = NoSaveFile

NextClient ==
    \/ \E name \in OwnKeys(collections) : getAll(name)
    \/ getAll_listItems_rejects
    \/ \E ids \in UNION { [1..n -> Ids] : n \in 0..MaxItems } : getAll_listItems(ids)
    \/ \E j \in 1..MaxItems, fetched \in BOOLEAN, raw \in Values :
           getAll_getItem(j, fetched, raw)

SpecClient == InitClient /\ [][NextClient]_vars


-----------------------------------------------------------------------------
(* The CMS store (packages/plasticine/src/store.tsx): createCMSStore.

   `store` holds the reactive state (of the one collection of its config),
   the closure variable backend, the token storage, the calls that are
   waiting for the backend (tasks), whether logout ran with no call of
   loginWithToken after it (loggedOut) and what the last step did (event).
   The backend is outside the program: each of its promises resolves or
   rejects as it likes.  An item's data is the value of its slug and of its
   cover, an image field, and whether it carries a key the schema does not
   know (note).                                                            *)

\* Number of calls made on one store.
MaxCalls == 2

Tokens == {"t1"}
Urls == {"u1"}

\* config.getCollections() of the store's config
StoreNames == <<"posts">>

\* names a caller may pass
CollectionArgs == {"posts", "drafts"}

\* the config's schema of posts: object({ slug, cover: image }) with the
\* cover optional or required
StoreSchemas ==
    { [required |-> <<"slug">>, optional |-> {"cover"}],
      [required |-> <<"slug", "cover">>, optional |-> {}] }

\* data a backend may hold
Data == [slug : Ids \cup {"undefined"}, cover : Urls \cup {"undefined"}, note : BOOLEAN]

\* data a caller may submit: conforming, with an unknown key, without slug,
\* without cover
Submitted ==
    { [slug |-> "a", cover |-> "u1", note |-> FALSE],
      [slug |-> "b", cover |-> "u1", note |-> TRUE],
      [slug |-> "undefined", cover |-> "u1", note |-> FALSE],
      [slug |-> "b", cover |-> "undefined", note |-> FALSE] }

\* what listCollection may resolve with: no item, items whose id is their
\* slug (one with an unknown key), an item without slug, an item whose slug
\* is the id of another item
Listings ==
    LET item(id, slug, note) ==
            [id |-> id, sha |-> "s0",
             data |-> [slug |-> slug, cover |-> "u1", note |-> note]]
    IN  { <<>>,
          <<item("a", "a", FALSE), item("b", "b", TRUE)>>,
          <<item("a", "a", FALSE), item("b", "undefined", FALSE)>>,
          <<item("a", "a", FALSE), item("b", "a", FALSE)>> }

\* what listMedia resolves with
MediaFiles == <<[path |-> "p1", url |-> "u1", sha |-> "m0"]>>

\* the keys a data object carries
PresentKeys(data) ==
    { k \in {"slug", "cover"} : data[k] # "undefined" }
        \cup (IF data.note THEN {"note"} ELSE {})

\* config.getSchema(collection): the schema, or nothing (undefined)
store_getSchema(schemaOf, collection) ==
    IF collection \in Range(StoreNames) THEN {schemaOf} ELSE {}

\* config.parseCollection(collection, data) of the store's config, whose
\* collection is a schema() chain: the engine's outcome on the keys of data,
\* and the data object it returns (the entries of the schema only)
store_parseCollection(schemaOf, collection, data) ==
    LET result == schema_parse(schemaOf.required, PresentKeys(data) \ schemaOf.optional)
        kept == result.value \cup (PresentKeys(data) \cap schemaOf.optional)
    IN  IF collection \notin Range(StoreNames)
        THEN [threw |-> TRUE, error |-> "UnknownCollection", data |-> data]
        ELSE IF result.threw
        THEN [threw |-> TRUE, error |-> result.error, data |-> data]
        ELSE [threw |-> FALSE, error |-> "none",
              data |-> [slug |-> IF "slug" \in kept THEN data.slug ELSE "undefined",
                        cover |-> IF "cover" \in kept THEN data.cover ELSE "undefined",
                        note |-> "note" \in kept]]

\* getId(data): the slug if it is a non-empty string, else the clock
getId(data) == IF data.slug # "undefined" THEN data.slug ELSE "now"

\* getMediaFields(collectionName): the fields with ui "image" or "file"
getMediaFields(name) ==
    IF name \in Range(StoreNames) THEN <<"cover">> ELSE <<>>

\* loadCollection(name) once listCollection resolved with listed: every
\* item parsed; the exception of a parse rejects the whole
loadCollection(schemaOf, name, listed) ==
    LET parsed == [j \in 1..Len(listed) |->
                       store_parseCollection(schemaOf, name, listed[j].data)]
    IN  IF \E j \in 1..Len(listed) : parsed[j].threw
        THEN [threw |-> TRUE, items |-> <<>>]
        ELSE [threw |-> FALSE,
              items |-> [j \in 1..Len(listed) |->
                            [id |-> listed[j].id, sha |-> listed[j].sha,
                             data |-> parsed[j].data]]]

NoTask ==
    [op |-> "none", pc |-> "none", token |-> "null", restore |-> FALSE,
     collection |-> "", id |-> "", data |-> [slug |-> "undefined", cover |-> "undefined", note |-> FALSE],
     sha |-> "undefined", url |-> "", path |-> "", refs |-> <<>>, k |-> 0,
     saved |-> <<>>]

\* a call of backend.content.saveItem or backend.media.deleteFile
NoIssue ==
    [method |-> "none", collection |-> "", id |-> "",
     data |-> NoTask.data, sha |-> "undefined", path |-> ""]

NoEvent ==
    [kind |-> "none", op |-> "none", outcome |-> "none", error |-> "none",
     restore |-> FALSE, issued |-> NoIssue, task |-> NoTask]

\* the store as createStore makes it, logged out
LoggedOut ==
    [authenticated |-> FALSE, user |-> "null", authLoading |-> FALSE,
     authError |-> "null", dataLoading |-> FALSE, dataError |-> "null",
     items |-> <<>>, media |-> <<>>]

\* the catch block of loginWithToken, and of the caller that restores a
\* session: .catch(() => tokenStorage.remove())
loginCatch(s, task, error) ==
    [s EXCEPT !.state.authLoading = FALSE,
              !.state.authError = error,
              !.token = IF task.restore THEN "null" ELSE @]

\* actions.loadAllData() up to its await, called with a backend
loadAllDataStart(s) ==
    [s EXCEPT !.state.dataLoading = TRUE, !.state.dataError = "null"]

\* a task leaves the list of waiting tasks
Without(tasks, i) == [j \in 1..(Len(tasks) - 1) |-> IF j < i THEN tasks[j] ELSE tasks[j + 1]]

\* loginWithToken(token), up to await backendFactory.getUser(token)
loginStart(s, token, restore) ==
    [s EXCEPT !.state.authLoading = TRUE,
              !.state.authError = "null",
              !.tasks = Append(@, [NoTask EXCEPT !.op = "loginWithToken",
                                                 !.pc = "getUser",
                                                 !.token = token,
                                                 !.restore = restore])]

\* createCMSStore(props) with savedToken in the token storage: the session
\* is restored by loginWithToken(savedToken)
createCMSStore(schemaOf, savedToken) ==
    LET made == [state |-> LoggedOut, backend |-> "null", token |-> savedToken,
                 schema |-> schemaOf, tasks |-> <<>>, calls |-> 0,
                 loggedOut |-> FALSE, event |-> NoEvent]
    IN  IF savedToken # "null" THEN loginStart(made, savedToken, TRUE) ELSE made

\* loginWithToken(token)
loginWithToken(token) ==
    /\ store.calls < MaxCalls
    /\ store' = [loginStart(store, token, FALSE) EXCEPT
           !.calls = @ + 1,
           !.loggedOut = FALSE,
           !.event = [NoEvent EXCEPT !.kind = "call", !.op = "loginWithToken",
                                     !.outcome = "pending"]]
    /\ UNCHANGED <<chainVars, registryVars, migrateVars, client, gh>>

\* getUser rejects: the catch block of loginWithToken
getUser_rejects(i) ==
    /\ i \in 1..Len(store.tasks)
    /\ store.tasks[i].pc = "getUser"
    /\ store' = [loginCatch(store, store.tasks[i], "getUser") EXCEPT
           !.tasks = Without(store.tasks, i),
           !.event = [NoEvent EXCEPT !.kind = "settle", !.op = "loginWithToken",
                                     !.outcome = "rejected", !.error = "getUser",
                                     !.restore = store.tasks[i].restore,
                                     !.task = store.tasks[i]]]
    /\ UNCHANGED <<chainVars, registryVars, migrateVars, client, gh>>

\* getUser resolves (lines 181-194): the backend is created, the token
\* stored, the state set, and loadAllData called, which waits for the
\* listings
getUser_resolves(i) ==
    /\ i \in 1..Len(store.tasks)
    /\ store.tasks[i].pc = "getUser"
    /\ LET token == store.tasks[i].token
           signedIn == [store EXCEPT !.backend = token,
                                     !.token = token,
                                     !.state.authenticated = TRUE,
                                     !.state.user = token,
                                     !.state.authLoading = FALSE]
       IN  store' = [loadAllDataStart(signedIn) EXCEPT
               !.tasks[i].pc = "loadAllData",
               !.event = [NoEvent EXCEPT !.kind = "step", !.op = "loginWithToken",
                                         !.outcome = "pending",
                                         !.task = store.tasks[i]]]
    /\ UNCHANGED <<chainVars, registryVars, migrateVars, client, gh>>

\* logout()
logout ==
    /\ store' = [store EXCEPT
           !.token = "null",
           !.backend = "null",
           !.state = [@ EXCEPT !.authenticated = FALSE, !.user = "null",
                               !.dataLoading = FALSE, !.dataError = "null",
                               !.items = <<>>, !.media = <<>>],
           !.loggedOut = TRUE,
           !.event = [NoEvent EXCEPT !.kind = "call", !.op = "logout",
                                     !.outcome = "resolved"]]
    /\ UNCHANGED <<chainVars, registryVars, migrateVars, client, gh>>

\* loadAllData(), called by the user of the store
loadAllData ==
    /\ store.calls < MaxCalls
    /\ store' =
           IF store.backend = "null"
           THEN [store EXCEPT
                    !.calls = @ + 1,
                    !.event = [NoEvent EXCEPT !.kind = "call", !.op = "loadAllData",
                                              !.outcome = "rejected",
                                              !.error = "Not authenticated"]]
           ELSE [loadAllDataStart(store) EXCEPT
                    !.calls = @ + 1,
                    !.tasks = Append(@, [NoTask EXCEPT !.op = "loadAllData",
                                                       !.pc = "loadAllData"]),
                    !.event = [NoEvent EXCEPT !.kind = "call", !.op = "loadAllData",
                                              !.outcome = "pending"]]
    /\ UNCHANGED <<chainVars, registryVars, migrateVars, client, gh>>

\* the Promise.all of loadAllData rejects: a listing was rejected or an item
\* did not parse.  The catch block of loadAllData runs, and for a data load
\* made by loginWithToken the catch block of loginWithToken after it
loadAllData_rejects(i, listed, listedOk) ==
    /\ i \in 1..Len(store.tasks)
    /\ store.tasks[i].pc = "loadAllData"
    /\ ~listedOk \/ loadCollection(store.schema, StoreNames[1], listed).threw
    /\ LET task == store.tasks[i]
           caught == [store EXCEPT !.state.dataLoading = FALSE,
                                   !.state.dataError = "load"]
           after == IF task.op = "loginWithToken"
                    THEN loginCatch(caught, task, "load")
                    ELSE caught
       IN  store' = [after EXCEPT
               !.tasks = Without(store.tasks, i),
               !.event = [NoEvent EXCEPT !.kind = "settle", !.op = task.op,
                                         !.outcome = "rejected", !.error = "load",
                                         !.restore = task.restore,
                                         !.task = task]]
    /\ UNCHANGED <<chainVars, registryVars, migrateVars, client, gh>>

\* the Promise.all of loadAllData resolves (lines 243-251)
loadAllData_resolves(i, listed) ==
    /\ i \in 1..Len(store.tasks)
    /\ store.tasks[i].pc = "loadAllData"
    /\ ~loadCollection(store.schema, StoreNames[1], listed).threw
    /\ store' = [store EXCEPT
           !.state.items = loadCollection(store.schema, StoreNames[1], listed).items,
           !.state.media = MediaFiles,
           !.state.dataLoading = FALSE,
           !.tasks = Without(store.tasks, i),
           !.event = [NoEvent EXCEPT !.kind = "settle", !.op = store.tasks[i].op,
                                     !.outcome = "resolved",
                                     !.restore = store.tasks[i].restore,
                                     !.task = store.tasks[i]]]
    /\ UNCHANGED <<chainVars, registryVars, migrateVars, client, gh>>


\* saveItem(collection, data, existingSha) up to its await (lines 264-273):
\* the exception thrown, or the call of backend.content.saveItem made
saveItem_passesSubmitted(s, collection, data, existingSha) ==
    IF s.backend = "null"
    THEN [threw |-> TRUE, error |-> "Not authenticated", issued |-> NoIssue]
    ELSE IF store_getSchema(s.schema, collection) = {}
    THEN [threw |-> TRUE, error |-> "Unknown collection", issued |-> NoIssue]
    ELSE [threw |-> FALSE, error |-> "none",
          issued |-> [NoIssue EXCEPT !.method = "saveItem",
                                     !.collection = collection,
                                     !.id = getId(data),
                                     !.data = data,
                                     !.sha = existingSha]]

saveItemCall(s, collection, data, existingSha) ==
    LET parsed == store_parseCollection(s.schema, collection, data)
    IN  IF s.backend = "null"
        THEN [threw |-> TRUE, error |-> "Not authenticated", issued |-> NoIssue]
        ELSE IF store_getSchema(s.schema, collection) = {}
        THEN [threw |-> TRUE, error |-> "Unknown collection", issued |-> NoIssue]
        ELSE IF parsed.threw
        THEN [threw |-> TRUE, error |-> parsed.error, issued |-> NoIssue]
        ELSE [threw |-> FALSE, error |-> "none",
              issued |-> [NoIssue EXCEPT !.method = "saveItem",
                                         !.collection = collection,
                                         !.id = getId(parsed.data),
                                         !.data = parsed.data,
                                         !.sha = existingSha]]

\* lines 275-289: the saved item replaces the item of its id or is pushed
saveItemDone(items, issued, sha) ==
    LET newItem == [id |-> issued.id, sha |-> sha, data |-> issued.data]
        found == { j \in 1..Len(items) : items[j].id = issued.id }
    IN  IF found = {}
        THEN Append(items, newItem)
        ELSE [items EXCEPT ![CHOOSE j \in found : \A h \in found : j <= h] = newItem]

\* saveItem(collection, data, existingSha), called by the user of the store
saveItem_call(collection, data, existingSha) ==
    /\ store.calls < MaxCalls
    /\ LET c == saveItemCall(store, collection, data, existingSha)
           submitted == [NoTask EXCEPT !.op = "saveItem", !.pc = "saveItem",
                                       !.collection = collection, !.data = data,
                                       !.sha = existingSha]
       IN  store' = [store EXCEPT
               !.calls = @ + 1,
               !.tasks = IF c.threw THEN @
                         ELSE Append(@, [submitted EXCEPT !.id = c.issued.id,
                                                          !.data = c.issued.data]),
               !.event = [NoEvent EXCEPT !.kind = "call", !.op = "saveItem",
                                         !.outcome = IF c.threw THEN "rejected" ELSE "pending",
                                         !.error = c.error,
                                         !.issued = c.issued,
                                         !.task = submitted]]
    /\ UNCHANGED <<chainVars, registryVars, migrateVars, client, gh>>

\* backend.content.saveItem resolves for a saveItem of the user
saveItem_resolves(i) ==
    /\ i \in 1..Len(store.tasks)
    /\ store.tasks[i].op = "saveItem"
    /\ store' = [store EXCEPT
           !.state.items = saveItemDone(@, store.tasks[i], "s1"),
           !.tasks = Without(store.tasks, i),
           !.event = [NoEvent EXCEPT !.kind = "settle", !.op = "saveItem",
                                     !.outcome = "resolved",
                                     !.task = store.tasks[i]]]
    /\ UNCHANGED <<chainVars, registryVars, migrateVars, client, gh>>

\* backend.content.saveItem rejects for a saveItem of the user
saveItem_rejects(i) ==
    /\ i \in 1..Len(store.tasks)
    /\ store.tasks[i].op = "saveItem"
    /\ store' = [store EXCEPT
           !.tasks = Without(store.tasks, i),
           !.event = [NoEvent EXCEPT !.kind = "settle", !.op = "saveItem",
                                     !.outcome = "rejected", !.error = "backend",
                                     !.task = store.tasks[i]]]
    /\ UNCHANGED <<chainVars, registryVars, migrateVars, client, gh>>

\* getMediaReferences(url)
getMediaReferences(s, url) ==
    LET RECURSIVE refs(_)
        refs(j) ==
            IF j > Len(s.state.items) THEN <<>>
            ELSE (IF \E f \in Range(getMediaFields(StoreNames[1])) :
                         s.state.items[j].data[f] = url
                  THEN <<[collection |-> StoreNames[1],
                          id |-> s.state.items[j].id, field |-> "cover"]>>
                  ELSE <<>>) \o refs(j + 1)
    IN  refs(1)

\* deleteMedia rejects: task i leaves with the error
deleteMediaThrows(s, i, error) ==
    [s EXCEPT !.tasks = Without(s.tasks, i),
              !.event = [NoEvent EXCEPT !.kind = "settle", !.op = "deleteMedia",
                                        !.outcome = "rejected", !.error = error,
                                        !.task = s.tasks[i]]]

\* the call of backend.media.deleteFile(path, sha) of task i (line 379)
deleteFileCall(s, i, k) ==
    IF s.backend = "null"
    THEN deleteMediaThrows(s, i, "TypeError")
    ELSE [s EXCEPT
             !.tasks[i].pc = "deleteFile",
             !.tasks[i].k = k,
             !.event = [NoEvent EXCEPT
                 !.kind = "step", !.op = "deleteMedia", !.outcome = "pending",
                 !.issued = [NoIssue EXCEPT !.method = "deleteFile",
                                            !.path = s.tasks[i].path,
                                            !.sha = s.tasks[i].sha],
                 !.task = s.tasks[i]]]

\* the loop of deleteMedia over its references from the k-th on (lines
\* 367-376), up to the next await: the save of a reference, or the
\* deletion of the file when the references are done
RECURSIVE deleteMediaLoop(_, _, _)
deleteMediaLoop(s, i, k) ==
    LET task == s.tasks[i]
        items == s.state.items
    IN  IF k > Len(task.refs)
        THEN deleteFileCall(s, i, k)
        ELSE LET ref == task.refs[k]
                 found == { j \in 1..Len(items) : items[j].id = ref.id }
             IN  IF found = {}
                 THEN deleteMediaLoop(s, i, k + 1)
                 ELSE LET item == items[CHOOSE j \in found : \A h \in found : j <= h]
                          updatedData == [item.data EXCEPT ![ref.field] = "undefined"]
                          c == saveItemCall(s, ref.collection, updatedData, item.sha)
                      IN  IF c.threw
                          THEN deleteMediaThrows(s, i, c.error)
                          ELSE [s EXCEPT
                                   !.tasks[i].pc = "saveItem",
                                   !.tasks[i].k = k,
                                   !.tasks[i].collection = c.issued.collection,
                                   !.tasks[i].id = c.issued.id,
                                   !.tasks[i].data = c.issued.data,
                                   !.event = [NoEvent EXCEPT
                                       !.kind = "step", !.op = "deleteMedia",
                                       !.outcome = "pending",
                                       !.issued = c.issued,
                                       !.task = s.tasks[i]]]

\* deleteMedia(url, path, sha), called by the user of the store
deleteMedia(url, path, sha) ==
    /\ store.calls < MaxCalls
    /\ LET called == [store EXCEPT !.calls = @ + 1]
           task == [NoTask EXCEPT !.op = "deleteMedia", !.pc = "references",
                                  !.url = url, !.path = path, !.sha = sha,
                                  !.refs = getMediaReferences(store, url)]
           started == [called EXCEPT !.tasks = Append(@, task)]
       IN  store' =
               IF store.backend = "null"
               THEN [called EXCEPT
                        !.event = [NoEvent EXCEPT !.kind = "call", !.op = "deleteMedia",
                                                  !.outcome = "rejected",
                                                  !.error = "Not authenticated",
                                                  !.task = task]]
               ELSE deleteMediaLoop(started, Len(started.tasks), 1)
    /\ UNCHANGED <<chainVars, registryVars, migrateVars, client, gh>>

\* the save of a reference resolves: saveItem updates the item list, and
\* the loop of deleteMedia goes on
deleteMedia_saveItem_resolves(i) ==
    /\ i \in 1..Len(store.tasks)
    /\ store.tasks[i].op = "deleteMedia"
    /\ store.tasks[i].pc = "saveItem"
    /\ LET task == store.tasks[i]
           saved == [store EXCEPT
                        !.state.items = saveItemDone(@, task, "s1"),
                        !.tasks[i].saved = Append(@, [id |-> task.id, data |-> task.data])]
       IN  store' = deleteMediaLoop(saved, i, task.k + 1)
    /\ UNCHANGED <<chainVars, registryVars, migrateVars, client, gh>>

\* the save of a reference rejects: deleteMedia rejects
deleteMedia_saveItem_rejects(i) ==
    /\ i \in 1..Len(store.tasks)
    /\ store.tasks[i].op = "deleteMedia"
    /\ store.tasks[i].pc = "saveItem"
    /\ store' = deleteMediaThrows(store, i, "backend")
    /\ UNCHANGED <<chainVars, registryVars, migrateVars, client, gh>>

\* backend.media.deleteFile resolves: the file leaves the local list
\* (lines 381-391)
deleteFile_resolves(i) ==
    /\ i \in 1..Len(store.tasks)
    /\ store.tasks[i].pc = "deleteFile"
    /\ LET files == store.state.media
           found == { j \in 1..Len(files) : files[j].path = store.tasks[i].path }
       IN  store' = [store EXCEPT
               !.state.media =
                   IF found = {} THEN files
                   ELSE Without(files, CHOOSE j \in found : \A h \in found : j <= h),
               !.tasks = Without(store.tasks, i),
               !.event = [NoEvent EXCEPT !.kind = "settle", !.op = "deleteMedia",
                                         !.outcome = "resolved",
                                         !.task = store.tasks[i]]]
    /\ UNCHANGED <<chainVars, registryVars, migrateVars, client, gh>>

\* backend.media.deleteFile rejects
deleteFile_rejects(i) ==
    /\ i \in 1..Len(store.tasks)
    /\ store.tasks[i].pc = "deleteFile"
    /\ store' = deleteMediaThrows(store, i, "backend")
    /\ UNCHANGED <<chainVars, registryVars, migrateVars, client, gh>>

InitStore ==
    /\ arrays = <<>>
    /\ chains = <<>>
    /\ call = NoCall
    /\ collections = NoObject
    /\ request = NoRequest
    /\ fs = NoFiles
    /\ options = NoOptions
    /\ mig = NoRun
    /\ client = NoClient
    /\ gh = NoSaveFile
    /\ \E schemaOf \in StoreSchemas, savedToken \in Tokens \cup {"null"} :
           store = createCMSStore(schemaOf, savedToken)

NextStore ==
    \/ \E token \in Tokens : loginWithToken(token)
    \/ \E i \in 1..(MaxCalls + 1) : getUser_rejects(i)
    \/ \E i \in 1..(MaxCalls + 1) : getUser_resolves(i)
    \/ logout
    \/ loadAllData
    \/ \E i \in 1..(MaxCalls + 1), listed \in Listings, listedOk \in BOOLEAN :
           loadAllData_rejects(i, listed, listedOk)
    \/ \E i \in 1..(MaxCalls + 1), listed \in Listings : loadAllData_resolves(i, listed)
    \/ \E collection \in CollectionArgs, data \in Submitted :
           saveItem_call(collection, data, "undefined")
    \/ \E i \in 1..(MaxCalls + 1) : saveItem_resolves(i)
    \/ \E i \in 1..(MaxCalls + 1) : saveItem_rejects(i)
    \/ \E url \in Urls : deleteMedia(url, "p1", "m0")
    \/ \E i \in 1..(MaxCalls + 1) : deleteMedia_saveItem_resolves(i)
    \/ \E i \in 1..(MaxCalls + 1) : deleteMedia_saveItem_rejects(i)
    \/ \E i \in 1..(MaxCalls + 1) : deleteFile_resolves(i)
    \/ \E i \in 1..(MaxCalls + 1) : deleteFile_rejects(i)

SpecStore == InitStore /\ [][NextStore]_vars

-----------------------------------------------------------------------------
(* Vocabulary of the properties.  Historical entries are numbered as in the
   documentation, oldest first: Entries(..)[1] is the oldest entry and
   Entries(..)[N] the newest.                                              *)

Entries(arrs, chs, self) ==
    IF chs[self].maker = "schema"
    THEN <<>>
    ELSE LET vs == arrs[chs[self].versions]
         IN  [k \in 1..Len(vs) |-> vs[Len(vs) + 1 - k]]

Conforms(s, value) == Range(s) \subseteq value

Chain == Entries(arrays, chains, call.self)
Current == chains[call.self].schema
N == Len(Chain)

Parsed == call.op = "parse"
Direct == Parsed /\ Conforms(Current, call.value)
HasMatch == \E i \in 1..N : Conforms(Chain[i].schema, call.value)
Migrates == Parsed /\ ~Conforms(Current, call.value) /\ HasMatch
NoMatch == Parsed /\ ~Conforms(Current, call.value) /\ ~HasMatch

\* the newest historical entry the raw value conforms to
Matched ==
    CHOOSE i \in 1..N :
        /\ Conforms(Chain[i].schema, call.value)
        /\ \A j \in (i + 1)..N : ~Conforms(Chain[j].schema, call.value)

\* transform[N](... transform[i](value))
RECURSIVE Replay(_, _, _)
Replay(entries, i, value) ==
    IF i > Len(entries)
    THEN value
    ELSE Replay(entries, i + 1, Call(entries[i].transform, value))

\* the transform calls of that replay, in order, each with its argument
RECURSIVE ReplayCalls(_, _, _)
ReplayCalls(entries, i, value) ==
    IF i > Len(entries)
    THEN <<>>
    ELSE <<[transform |-> entries[i].transform, value |-> value]>>
             \o ReplayCalls(entries, i + 1, Call(entries[i].transform, value))

\* schemas of entries hi, hi-1, .., lo
Downward(entries, hi, lo) ==
    [j \in 1..(hi - lo + 1) |-> entries[hi + 1 - j].schema]

\* issue list of one schema for a value that does not conform to it
IssuesOf(s, value) == SelectSeq(s, LAMBDA k : k \notin value)

\* every transform maps each value conforming to its entry's schema to a value
\* conforming to the next schema of the chain
WellFormed(entries, current) ==
    \A k \in 1..Len(entries) :
        \A u \in Values :
            Conforms(entries[k].schema, u) =>
                Conforms(IF k < Len(entries) THEN entries[k + 1].schema ELSE current,
                         Call(entries[k].transform, u))

-----------------------------------------------------------------------------
\* C1: a raw value that fails the current schema and whose newest conforming
\* historical entry is i comes back as transform[N](..transform[i](v)): the
\* transforms of entries i..N are called once each, oldest first, each on the
\* previous one's result, and no older entry's transform is called.
C1_ReplayFromMatch ==
    Migrates =>
        /\ ~call.result.threw
        /\ call.result.value = Replay(Chain, Matched, call.value)
        /\ call.result.calls = ReplayCalls(Chain, Matched, call.value)

\* two entries replayed from the oldest, with transforms whose order matters
C1_Witness ==
    /\ Migrates
    /\ N = 2
    /\ Matched = 1
    /\ Call(Chain[2].transform, Call(Chain[1].transform, call.value))
         # Call(Chain[1].transform, Call(Chain[2].transform, call.value))

\* C2: a raw value that conforms to the current schema comes back as the
\* current schema's validation output, with no transform called and no
\* historical schema validated, also when it conforms to historical schemas.
C2_CurrentWins ==
    Direct =>
        /\ ~call.result.threw
        /\ call.result.value = safeParse(Current, call.value).output
        /\ call.result.calls = <<>>
        /\ call.result.validated = <<Current>>

\* the value also conforms to a historical schema whose transform would
\* change it, and the validation output differs from the raw value
C2_Witness ==
    /\ Direct
    /\ HasMatch
    /\ Replay(Chain, Matched, call.value) # call.result.value
    /\ call.result.value # call.value

\* C3: when the raw value fails the current schema the historical schemas are
\* validated newest first and validation stops at the first that conforms:
\* nothing older than the match is validated and the replay starts there.
C3_NewestFirstStopAtMatch ==
    (Parsed /\ ~Conforms(Current, call.value) /\ N > 0) =>
        /\ call.result.validated =
               <<Current>> \o Downward(Chain, N, IF HasMatch THEN Matched ELSE 1)
        /\ HasMatch =>
               /\ Len(call.result.calls) = N - Matched + 1
               /\ call.result.calls[1].transform = Chain[Matched].transform

\* the value conforms to two historical schemas; the older one is skipped
C3_Witness ==
    /\ Migrates
    /\ Matched = 2
    /\ Conforms(Chain[1].schema, call.value)
    /\ Chain[1].schema # Chain[2].schema
    /\ Len(call.result.validated) = 2

\* C4: when the raw value conforms to no schema of the chain the error carries
\* one issue list per schema attempted: N + 1 for N historical entries.
C4_IssueListPerSchema ==
    NoMatch => /\ call.result.threw
               /\ Len(call.result.issues) = N + 1

\* C5: the issue lists of the error are in the order attempted: the current
\* schema's first, then the historical schemas' from newest to oldest.
C5_IssueOrder ==
    NoMatch =>
        call.result.issues =
            <<IssuesOf(Current, call.value)>>
                \o [j \in 1..N |-> IssuesOf(Chain[N + 1 - j].schema, call.value)]

\* C6 as stated: every value parse returns conforms to the current schema.
C6_ResultConforms ==
    (Parsed /\ ~call.result.threw) => Conforms(Current, call.result.value)

\* C6 amended: for a chain whose transforms each map the values conforming to
\* their entry's schema into the next schema, every value parse returns
\* conforms to the current schema; a value matched at the oldest entry has had
\* all N transforms called in order.
C6_ResultConformsWellFormed ==
    (Parsed /\ ~call.result.threw /\ WellFormed(Chain, Current)) =>
        /\ Conforms(Current, call.result.value)
        /\ (Migrates /\ Matched = 1) =>
               [j \in 1..Len(call.result.calls) |-> call.result.calls[j].transform]
                   = [j \in 1..N |-> Chain[j].transform]

\* a well-formed two-entry chain replayed from its oldest entry
C6_Witness ==
    /\ Migrates
    /\ WellFormed(Chain, Current)
    /\ N = 2
    /\ Matched = 1
    /\ ~Conforms(Chain[2].schema, call.value)
    /\ Len(call.result.calls) = 2

\* C7: the output of a transform is never validated: on the migration path
\* parse returns the last transform's result without error, whether or not
\* it conforms, and the only validations made are those of the raw value.
C7_OutputNotValidated ==
    Migrates =>
        /\ ~call.result.threw
        /\ call.result.issues = <<>>
        /\ LET last == call.result.calls[Len(call.result.calls)]
           IN  call.result.value = Call(last.transform, last.value)
        /\ Len(call.result.validated) = 1 + (N - Matched + 1)

\* the returned value fails the current schema, and an intermediate value
\* failed the schema of the next entry
C7_Witness ==
    /\ Migrates
    /\ ~Conforms(Current, call.result.value)
    /\ N = 2
    /\ Matched = 1
    /\ ~Conforms(Chain[2].schema, call.result.calls[2].value)

\* C8: parse is idempotent: parsing a returned value again returns it
\* unchanged and calls no transform.
C8_Idempotent ==
    (Parsed /\ ~call.result.threw) =>
        LET again == Parse(arrays, chains, call.self, call.result.value)
        IN  /\ ~again.threw
            /\ again.value = call.result.value
            /\ again.calls = <<>>

\* C9: version never mutates an existing chain: every chain object keeps its
\* current schema, its historical entries and its parse outcome on every
\* value across every step.
C9_ChainsImmutable ==
    [][\/ (arrays' = arrays /\ chains' = chains)
       \/ \A c \in 1..Len(chains) :
             /\ c <= Len(chains')
             /\ chains'[c].schema = chains[c].schema
             /\ Entries(arrays', chains', c) = Entries(arrays, chains, c)
             /\ \A value \in Values :
                    Parse(arrays', chains', c, value) = Parse(arrays, chains, c, value)
      ]_vars

\* version was called on a chain that itself came from version, while the
\* chain it was derived from is still held
C9_Witness ==
    /\ call.op = "version"
    /\ chains[call.self].maker = "createVersioned"
    /\ Len(chains) = 3

\* C10: version returns a chain with one more historical entry: the receiver's
\* entries in their order, then the receiver's current schema with the given
\* transform as the newest entry; newSchema is the current schema.
C10_VersionAppends ==
    call.op = "version" =>
        LET old == Entries(arrays, chains, call.self)
            new == Entries(arrays, chains, call.ret)
        IN  /\ Len(new) = Len(old) + 1
            /\ new = Append(old, [schema |-> chains[call.self].schema,
                                  transform |-> call.transform])
            /\ chains[call.ret].schema = call.newSchema
            /\ call.ret # call.self

\* the receiver already had a historical entry, with another schema and
\* transform than the ones added
C10_Witness ==
    /\ call.op = "version"
    /\ Len(Entries(arrays, chains, call.self)) = 1
    /\ Entries(arrays, chains, call.self)[1].schema # chains[call.self].schema
    /\ Entries(arrays, chains, call.self)[1].transform # call.transform

-----------------------------------------------------------------------------
\* schema of the entry after entry k: the next entry's, or the current schema
NextSchema(entries, current, k) ==
    IF k < Len(entries) THEN entries[k + 1].schema ELSE current

\* C11 as stated: during replay the transform stored in entry k is called on
\* a value shaped for the schema of entry k-1.
C11_TransformFromOlderSchema ==
    (Migrates /\ WellFormed(Chain, Current)) =>
        \A j \in 1..Len(call.result.calls) :
            LET k == Matched + j - 1
            IN  k > 1 => Conforms(Chain[k - 1].schema, call.result.calls[j].value)

\* C11 amended: the transform stored in entry k is the upgrade step from
\* entry k's own schema to the next schema of the chain: the replay calls the
\* transforms of entries Matched..N, the first one on a value conforming to
\* its own entry's schema, and in a chain of well-formed transforms each one
\* on a value conforming to its own entry's schema, yielding a value
\* conforming to the schema of the entry after it.
C11_TransformFromOwnSchema ==
    Migrates =>
        /\ Len(call.result.calls) = N - Matched + 1
        /\ Conforms(Chain[Matched].schema, call.result.calls[1].value)
        /\ call.result.calls[1].transform = Chain[Matched].transform
        /\ WellFormed(Chain, Current) =>
               \A j \in 1..Len(call.result.calls) :
                   LET k == Matched + j - 1
                       c == call.result.calls[j]
                   IN  /\ c.transform = Chain[k].transform
                       /\ Conforms(Chain[k].schema, c.value)
                       /\ Conforms(NextSchema(Chain, Current, k),
                                   Call(c.transform, c.value))

\* the newest entry of a well-formed chain is replayed on a value that does
\* not conform to the schema of the entry before it
C11_Witness ==
    /\ Migrates
    /\ WellFormed(Chain, Current)
    /\ N = 2
    /\ Matched = 2
    /\ ~Conforms(Chain[1].schema, call.value)
    /\ Len(call.result.calls) = 1

\* C12: a chain made by schema(s) alone validates against s only: a
\* conforming value comes back as the validation output, any other value
\* raises an error with exactly one issue list, and no transform is called.
C12_PlainValidator ==
    (Parsed /\ chains[call.self].maker = "schema") =>
        /\ call.result.calls = <<>>
        /\ call.result.validated = <<Current>>
        /\ IF Conforms(Current, call.value)
           THEN /\ ~call.result.threw
                /\ call.result.value = call.value \cap Range(Current)
           ELSE /\ call.result.threw
                /\ Len(call.result.issues) = 1
                /\ call.result.issues[1] = IssuesOf(Current, call.value)

\* a zero-entry chain rejected a value
C12_Witness ==
    /\ Parsed
    /\ chains[call.self].maker = "schema"
    /\ call.result.threw
    /\ Len(call.result.issues[1]) = 2

\* C13: parse depends on the chain and the value only: a parse step writes
\* neither the chains nor their arrays, and no step of any kind changes the
\* outcome of parse for any existing chain and any value.
C13_ParseDeterministic ==
    [][IF arrays' = arrays /\ chains' = chains
       THEN call'.op = "parse" =>
                call'.result = Parse(arrays', chains', call'.self, call'.value)
       ELSE /\ call'.op # "parse"
            /\ \A c \in 1..Len(chains) : \A value \in Values :
                   Parse(arrays', chains', c, value) = Parse(arrays, chains, c, value)
      ]_vars

\* a chain is parsed after chains were derived from it, on the migration path
C13_Witness ==
    /\ Migrates
    /\ call.self = 2
    /\ Len(chains) = 3
    /\ chains[3].maker = "createVersioned"
    /\ Len(arrays[chains[3].versions]) = 2
    /\ N = 1

-----------------------------------------------------------------------------
\* the transform calls of the replay from entry i, up to and including the
\* first one that throws
RECURSIVE ReplayUntilThrow(_, _, _)
ReplayUntilThrow(entries, i, value) ==
    IF i > Len(entries)
    THEN <<>>
    ELSE IF Throws(entries[i].transform, value)
         THEN <<[transform |-> entries[i].transform, value |-> value]>>
         ELSE <<[transform |-> entries[i].transform, value |-> value]>>
                  \o ReplayUntilThrow(entries, i + 1, Call(entries[i].transform, value))

ReplayThrows(entries, i, value) ==
    LET cs == ReplayUntilThrow(entries, i, value)
    IN  cs # <<>> /\ Throws(cs[Len(cs)].transform, cs[Len(cs)].value)

\* C14: when a transform throws during the replay, parse ends with that
\* exception: it is no SchemaError and no value is returned, and no transform
\* after the throwing one is called.
C14_TransformFaultPropagates ==
    Migrates =>
        IF ReplayThrows(Chain, Matched, call.value)
        THEN /\ call.result.threw
             /\ call.result.error = "TypeError"
             /\ call.result.issues = <<>>
             /\ call.result.calls = ReplayUntilThrow(Chain, Matched, call.value)
        ELSE ~call.result.threw

\* the oldest of two entries is matched and its transform throws: the
\* newest entry's transform is never called
C14_Witness ==
    /\ Migrates
    /\ N = 2
    /\ Matched = 1
    /\ Throws(Chain[1].transform, call.value)
    /\ Len(call.result.calls) = 1
    /\ call.result.threw

-----------------------------------------------------------------------------
Registered(collection) == collection \in OwnKeys(collections)

\* C15: parseCollection is lookup followed by the chain's parse: for a
\* registered name it returns or raises what that chain's parse does, for any
\* other name it raises the unknown-collection error and validates nothing.
C15_ParseCollectionComposes ==
    request.op = "parseCollection" =>
        IF Registered(request.collection)
        THEN request.result =
                 Parse(arrays, chains, collections.value[request.collection], request.data)
        ELSE /\ request.result.threw
             /\ request.result.error = "UnknownCollection"
             /\ request.result.validated = <<>>

\* C16 as stated: looking up the schema of a name that is not registered
\* raises the unknown-collection error.
C16_LookupRaises ==
    (request.op \in {"getSchema", "getSchema_schemas"} /\ ~Registered(request.collection)) =>
        /\ request.result.threw
        /\ request.result.error = "UnknownCollection"

\* C16 amended: getSchema never raises; for a name that is not registered it
\* returns undefined, except that the older getSchema returns the inherited
\* member for a name of Object.prototype; for a registered name it returns
\* the current schema of that collection's chain.
C16_LookupReturnsUndefined ==
    request.op \in {"getSchema", "getSchema_schemas"} =>
        /\ ~request.result.threw
        /\ IF Registered(request.collection)
           THEN request.schema =
                    [kind |-> "schema",
                     schema |-> chains[collections.value[request.collection]].schema]
           ELSE request.schema.kind =
                    IF /\ request.op = "getSchema_schemas"
                       /\ request.collection \in ObjectPrototype
                    THEN "inherited"
                    ELSE "undefined"

\* the schema of an ordinary name was asked of a config that has
\* collections, but not that one
C16_Witness ==
    /\ request.op = "getSchema"
    /\ ~Registered(request.collection)
    /\ request.collection \notin ObjectPrototype
    /\ Len(collections.order) = 2
    /\ request.schema.kind = "undefined"

\* C17: getCollections returns every registered name once, in the order the
\* collections were declared.
C17_DeclarationOrder ==
    request.op = "getCollections" => request.keys = collections.order

-----------------------------------------------------------------------------
(* Vocabulary of the properties of migrate: the file the run is at, taken
   from the content directory as it is before the iteration.               *)

\* the text of the file the run is at
Content == fs[collectionName].files[filename]

\* what config.parseCollection makes of the record of that file
Record ==
    ParseCollection(arrays, chains, collections, collectionName, JSON_parse(Content))

\* the file holds a record and the record parses
Parses == Content.valid /\ ~Record.threw

\* the serialised parsed value differs from the serialised original
Differs == JSON_stringify(Record.value) # JSON_stringify(JSON_parse(Content))

\* the step reports that the file could not be read
ReadFailed ==
    mig'.reports = Append(mig.reports, Line(collectionName, filename, "error", "EACCES"))

\* the file was reported as processed: migrated, up to date or in error
Processed(collection, file) ==
    \E j \in 1..Len(mig.reports) :
        /\ mig.reports[j].collection = collection
        /\ mig.reports[j].filename = file
        /\ mig.reports[j].kind \in {"migrated", "upToDate", "error"}

\* C18: a step of migrate calls writeFile or changes the content directory
\* only for the file it is at, only if that file's record parsed, the
\* serialised parsed value differs from the serialised original and dryRun
\* is off; the data written is the serialised parsed value, and the file was
\* not written before.  Hence a file whose parse fails or whose
\* serialisation is unchanged is never written.
C18_WriteOnlyMigrated ==
    [][ (mig'.writes # mig.writes \/ fs' # fs) =>
            /\ mig.pc = "file"
            /\ Parses
            /\ Differs
            /\ ~options.dryRun
            /\ mig'.writes =
                   Append(mig.writes, [collection |-> collectionName,
                                       filename |-> filename,
                                       data |-> JSON_stringify(Record.value)])
            /\ fs' \in { fs, [fs EXCEPT ![collectionName].files[filename] =
                                            JSON_stringify(Record.value)] }
            /\ \A j \in 1..Len(mig.writes) :
                   ~(/\ mig.writes[j].collection = collectionName
                     /\ mig.writes[j].filename = filename) ]_vars

\* a run rewrote a file with the data it passed to writeFile, found another
\* file up to date and a third one failing all schemas, and wrote neither
C18_Witness ==
    /\ mig.pc = "done"
    /\ Len(mig.writes) = 1
    /\ fs[mig.writes[1].collection].files[mig.writes[1].filename] = mig.writes[1].data
    /\ \E i, j \in 1..Len(mig.reports) :
           /\ mig.reports[i].kind = "upToDate"
           /\ mig.reports[j].kind = "error"
           /\ mig.reports[j].message = "SchemaError"

\* C19: with dryRun set no step of migrate calls writeFile or changes the
\* content directory; a file that was read and whose record would be
\* migrated is still logged and counted as migrated, and the summary carries
\* the count and the dry-run notice.
C19_DryRunNeverWrites ==
    [][ options.dryRun =>
            /\ fs' = fs
            /\ mig'.writes = <<>>
            /\ (mig.pc = "file" /\ Parses /\ Differs /\ ~ReadFailed) =>
                   /\ mig'.reports =
                          Append(mig.reports,
                                 Line(collectionName, filename, "migrated", ""))
                   /\ mig'.migratedFiles = mig.migratedFiles + 1
            /\ (mig.pc # "done" /\ mig'.pc = "done") =>
                   /\ mig'.summary.migrated = mig.migratedFiles
                   /\ mig'.summary.dryRunNotice = (mig.migratedFiles > 0) ]_vars

\* a dry run finished having reported files to migrate, some of them in the
\* collection whose chain has a historical version, without a writeFile call
C19_Witness ==
    /\ options.dryRun
    /\ mig.pc = "done"
    /\ mig.summary.dryRunNotice
    /\ mig.summary.migrated >= 2
    /\ mig.writes = <<>>
    /\ \E j \in 1..Len(mig.reports) :
           mig.reports[j].kind = "migrated" /\ mig.reports[j].collection = "posts"

\* C20: when the record of a file fails every schema of its collection, the
\* iteration logs a per-file error, counts it, writes nothing and goes on
\* with the next file of the collection or, after the last one, with the
\* next collection; at every moment each file the run has passed has been
\* reported, so a finished run has processed every file of every collection.
C20_ErrorContinues ==
    /\ [][ (/\ mig.pc = "file"
            /\ Content.valid
            /\ Record.threw
            /\ Record.error = "SchemaError"
            /\ mig' # mig
            /\ ~ReadFailed) =>
               /\ mig'.reports =
                      Append(mig.reports,
                             Line(collectionName, filename, "error", "SchemaError"))
               /\ mig'.errorFiles = mig.errorFiles + 1
               /\ fs' = fs
               /\ mig'.writes = mig.writes
               /\ IF mig.fi < Len(mig.jsonFiles)
                  THEN /\ mig'.pc = "file"
                       /\ mig'.ci = mig.ci
                       /\ mig'.fi = mig.fi + 1
                       /\ mig'.jsonFiles = mig.jsonFiles
                  ELSE /\ mig'.pc = "collection"
                       /\ mig'.ci = mig.ci + 1 ]_vars
    /\ [](/\ \A c \in 1..Len(mig.names) :
                (c < mig.ci /\ fs[mig.names[c]].kind = "directory") =>
                    \A file \in DOMAIN fs[mig.names[c]].files :
                        endsWithJson(file) => Processed(mig.names[c], file)
          /\ mig.pc = "file" =>
                \A j \in 1..(mig.fi - 1) : Processed(collectionName, mig.jsonFiles[j])
          /\ mig.pc = "done" => mig.ci = Len(mig.names) + 1)

\* a finished run: the first file of the first collection failed every
\* schema and was left as it was, and the file after it and a file of the
\* next collection were processed after it
C20_Witness ==
    /\ mig.pc = "done"
    /\ mig.errorFiles = 1
    /\ \E i, j, k \in 1..Len(mig.reports) :
           /\ i < j /\ j < k
           /\ mig.reports[i].kind = "error"
           /\ mig.reports[i].message = "SchemaError"
           /\ mig.reports[i].collection = mig.names[1]
           /\ mig.reports[j].collection = mig.names[1]
           /\ mig.reports[j].kind \in {"migrated", "upToDate"}
           /\ mig.reports[k].collection = mig.names[2]
           /\ mig.reports[k].kind \in {"migrated", "upToDate"}
           /\ fs[mig.names[1]].files[mig.reports[i].filename].valid
           /\ \A w \in 1..Len(mig.writes) :
                  \/ mig.writes[w].collection # mig.names[1]
                  \/ mig.writes[w].filename # mig.reports[i].filename

-----------------------------------------------------------------------------
\* C23: on the migration path the first transform called receives the raw
\* input value itself, not the output of validating it against the matched
\* schema, and every later transform receives what the transform before it
\* returned; on the direct path parse returns the output of validating the
\* value against the current schema (its entries only), not the raw value.
C23_TransformInputs ==
    /\ Migrates =>
           LET calls == call.result.calls
           IN  /\ calls # <<>>
               /\ calls[1].value = call.value
               /\ \A j \in 2..Len(calls) :
                      calls[j].value = Call(calls[j - 1].transform, calls[j - 1].value)
    /\ Direct =>
           /\ ~call.result.threw
           /\ call.result.calls = <<>>
           /\ call.result.value = call.value \cap Range(Current)

\* a value with an entry its matched schema does not know was migrated by
\* two transforms: the first got the value with that entry
C23_Witness ==
    /\ Migrates
    /\ Len(call.result.calls) = 2
    /\ call.result.calls[1].value = call.value
    /\ call.value # safeParse(Chain[Matched].schema, call.value).output
    /\ call.result.calls[2].value # call.result.calls[1].value

\* C26: when migrate has finished, every processed file was counted in
\* exactly one of migrated, errors and up to date: the three counts of the
\* summary are non-negative and add up to the total, and no file was logged
\* both as migrated and as an error.
C26_CountersPartition ==
    mig.pc = "done" =>
        /\ mig.summary.migrated >= 0
        /\ mig.summary.errors >= 0
        /\ mig.summary.upToDate >= 0
        /\ mig.summary.totalFiles =
               mig.summary.migrated + mig.summary.errors + mig.summary.upToDate
        /\ \A i, j \in 1..Len(mig.reports) :
               (/\ mig.reports[i].collection = mig.reports[j].collection
                /\ mig.reports[i].filename = mig.reports[j].filename) => i = j

\* C27: a run of migrate that directly follows a run without --dry-run in
\* which every file parsed and every write succeeded, and that can read
\* every file, finds every file up to date: it counts no migrated file and
\* no error and calls writeFile for none.
C27_SecondRunUpToDate ==
    (/\ mig.pc = "done"
     /\ mig.previous.printed
     /\ mig.previous.errors = 0
     /\ \A j \in 1..Len(mig.reports) : mig.reports[j].message # "EACCES") =>
        /\ mig.summary.migrated = 0
        /\ mig.summary.errors = 0
        /\ mig.writes = <<>>

\* C30: in the src/src/lib.ts builder, version(newSchema, transform) called
\* on a chain that has historical entries records the receiver's current
\* schema as the newest historical entry of the chain it returns, so every
\* value that conforms to that schema and not to the new one is migrated by
\* parse of the new chain: transform is called on it and its result returned.
C30_LibVersionKeepsCurrent ==
    (call.op = "version" /\ chains[call.self].maker = "lib.version") =>
        LET new == chains[call.ret]
            previous == chains[call.self].schema
        IN  /\ new.schema = call.newSchema
            /\ arrays[new.versions][1].schema = previous
            /\ \A value \in Values :
                   (Conforms(previous, value) /\ ~Conforms(call.newSchema, value)) =>
                       LET result == lib_Parse(arrays, chains, call.ret, value)
                       IN  /\ ~result.threw
                           /\ result.calls =
                                  <<[transform |-> call.transform, value |-> value]>>

-----------------------------------------------------------------------------
(* Vocabulary of the properties of saveFile *)

Terminated == gh.pc \in {"returned", "threw"}

\* at most maxRetries PUTs, attempt j is made only after a 409 to attempt
\* j-1, the call returns exactly on a 200 and fails exactly on another
\* outcome or on the 409 to the last attempt
RetryDiscipline ==
    /\ Len(gh.puts) <= maxRetries
    /\ Len(gh.statuses) <= Len(gh.puts)
    /\ \A j \in 1..Len(gh.puts) : gh.puts[j].attempt = j - 1
    /\ \A j \in 2..Len(gh.puts) : gh.statuses[j - 1] = 409
    /\ gh.pc = "returned" =>
           /\ Len(gh.statuses) = Len(gh.puts)
           /\ gh.statuses[Len(gh.statuses)] = 200
           /\ gh.result = "sha"
    /\ gh.pc = "threw" =>
           /\ Len(gh.statuses) = Len(gh.puts)
           /\ gh.statuses[Len(gh.statuses)] # 200
           /\ gh.statuses[Len(gh.statuses)] = 409 => Len(gh.puts) = maxRetries
    /\ (Len(gh.statuses) = Len(gh.puts) /\ gh.puts # <<>>) =>
           IF gh.statuses[Len(gh.statuses)] = 409 /\ Len(gh.puts) < maxRetries
           THEN ~Terminated
           ELSE Terminated

\* C29 as stated: saveFile makes at most 3 PUTs, retries only after a 409,
\* returns on the first success and fails on any other status or on the
\* third 409; and on every retry of a call that was given a sha the file was
\* re-read just before it and the PUT carries the sha read, or none when the
\* re-read failed.
C29_RereadOnEachRetry ==
    /\ RetryDiscipline
    /\ gh.sha # "undefined" =>
           \A j \in 2..Len(gh.puts) :
               /\ gh.puts[j].reread \in {"read", "failed"}
               /\ gh.puts[j].reread = "failed" <=> gh.puts[j].sha = "undefined"

\* the sha sent with a retry: the file is re-read only while the call still
\* holds a sha; once a re-read has failed, or when the call was given none,
\* the retries are sent without sha and without re-reading
RereadWhileSha ==
    \A j \in 2..Len(gh.puts) :
        IF gh.puts[j - 1].sha # "undefined"
        THEN /\ gh.puts[j].reread \in {"read", "failed"}
             /\ gh.puts[j].reread = "failed" <=> gh.puts[j].sha = "undefined"
        ELSE /\ gh.puts[j].reread = "none"
             /\ gh.puts[j].sha = "undefined"

\* C29 amended: saveFile makes at most 3 PUTs and terminates when every
\* request settles; it returns on the first success, retries only after a
\* 409, fails on any other outcome and on the third 409; before a retry it
\* re-reads the file's sha only if it still holds one, and sends the sha read
\* or, once a re-read failed, no sha on this and every later retry.
C29_SaveFileRetries ==
    /\ [](RetryDiscipline /\ RereadWhileSha /\ (gh.puts # <<>> => gh.puts[1].sha = gh.sha))
    /\ <>Terminated

\* a call given a sha got three 409s: the re-read before the first retry
\* failed, and the second retry went out without a re-read and without sha
C29_Witness ==
    /\ gh.pc = "threw"
    /\ gh.sha = "s0"
    /\ Len(gh.puts) = 3
    /\ gh.puts[2].reread = "failed"
    /\ gh.puts[3].reread = "none"
    /\ gh.puts[3].sha = "undefined"
    /\ gh.statuses = <<409, 409, 409>>

-----------------------------------------------------------------------------
\* C22: when getAll resolves, its result has one { id, data } entry per id
\* listItems returned, in the order of listItems, each with the value
\* parseCollection returns for the content fetched for that id; as soon as
\* the fetch or the parse of one item has failed getAll is rejected, and a
\* rejected getAll has returned no list.
C22_GetAllInOrder ==
    /\ client.pc = "resolved" =>
           /\ Len(client.items) = Len(client.ids)
           /\ \A j \in 1..Len(client.ids) :
                  LET parsed == ParseCollection(arrays, chains, collections,
                                                client.name, client.slots[j].raw)
                  IN  /\ client.slots[j].state = "fulfilled"
                      /\ ~parsed.threw
                      /\ client.items[j] = [id |-> client.ids[j], data |-> parsed.value]
    /\ (\E j \in 1..Len(client.slots) : client.slots[j].state = "rejected") =>
           client.pc = "rejected"
    /\ client.pc = "rejected" => client.items = <<>>
    /\ client.pc \in {"idle", "listItems", "getItem"} => client.items = <<>>

\* getAll of posts resolved for two different ids whose contents were
\* fetched: one was migrated by parseCollection, the other was current
C22_Witness ==
    /\ client.pc = "resolved"
    /\ client.name = "posts"
    /\ Len(client.ids) = 2
    /\ client.ids[1] # client.ids[2]
    /\ client.items[1].data # client.slots[1].raw
    /\ client.items[2].data = client.slots[2].raw
    /\ client.items[1].id = client.ids[1]

-----------------------------------------------------------------------------
(* Vocabulary of the store's properties.                                   *)

\* the step is a call of saveItem by the user of the store
SaveItemCalled ==
    /\ store'.calls = store.calls + 1
    /\ store'.event.kind = "call"
    /\ store'.event.op = "saveItem"

\* the data is what the schema of the store yields for itself
Validated(data) ==
    /\ ~store_parseCollection(store.schema, StoreNames[1], data).threw
    /\ store_parseCollection(store.schema, StoreNames[1], data).data = data

(* C21: saveItem persists only validated data.  A call of saveItem calls
   backend.content.saveItem only when parseCollection succeeds on the
   submitted data, and passes it the parsed value; when parseCollection
   fails no backend call is made, the local item list is unchanged and the
   call rejects, with the error of the parse when the parse was reached.
   Every save a deleteMedia makes passes validated data too.               *)
C21_SaveItemValidated ==
    [][ /\ SaveItemCalled =>
            LET submitted == store'.event.task
                issued == store'.event.issued
                parsed == store_parseCollection(store.schema, submitted.collection,
                                                submitted.data)
            IN  /\ issued.method = "saveItem" =>
                       /\ ~parsed.threw
                       /\ issued.data = parsed.data
                       /\ issued.collection = submitted.collection
                       /\ store'.event.outcome = "pending"
                /\ parsed.threw =>
                       /\ issued = NoIssue
                       /\ store'.state.items = store.state.items
                       /\ store'.tasks = store.tasks
                       /\ store'.event.outcome = "rejected"
                       /\ (store.backend # "null"
                             /\ submitted.collection \in Range(StoreNames))
                              => store'.event.error = parsed.error
        /\ store'.event.issued.method = "saveItem" =>
               Validated(store'.event.issued.data)
      ]_vars

\* a submission with an unknown key was saved without it
C21_Witness ==
    /\ store.event.kind = "call"
    /\ store.event.op = "saveItem"
    /\ store.event.task.data.note
    /\ store.event.issued.method = "saveItem"
    /\ ~store.event.issued.data.note
    /\ \E i \in 1..Len(store.tasks) : store.tasks[i].op = "saveItem"

(* C24: once logout() has run, and until loginWithToken is called again,
   the store is unauthenticated, has no user, and its item and media lists
   are empty, also when a loginWithToken or loadAllData call made before
   the logout settles after it.                                            *)
C24_LogoutIsFinal ==
    store.loggedOut =>
        /\ ~store.state.authenticated
        /\ store.state.user = "null"
        /\ store.state.items = <<>>
        /\ store.state.media = <<>>

\* the last step rejected a loginWithToken call
LoginRejected ==
    /\ store.event.kind = "settle"
    /\ store.event.op = "loginWithToken"
    /\ store.event.outcome = "rejected"

(* C25: whenever a loginWithToken call rejects, from the verification of
   the token or from the data load after it, the store ends
   unauthenticated: authenticated is false, no backend is retained, no
   token is left in the token storage, authLoading is false and authError
   is set.                                                                 *)
C25_RejectedLoginSignsOut ==
    LoginRejected =>
        /\ ~store.state.authenticated
        /\ store.backend = "null"
        /\ store.token = "null"
        /\ ~store.state.authLoading
        /\ store.state.authError # "null"

\* the step is one of a deleteMedia that calls backend.media.deleteFile
DeleteFileIssued ==
    /\ store'.event # store.event \/ store'.tasks # store.tasks
    /\ store'.event.op = "deleteMedia"
    /\ store'.event.issued.method = "deleteFile"

\* the step is one of a deleteMedia whose save of a reference fails: the
\* backend rejects it, or saveItem throws
SaveOfReferenceFails ==
    /\ store'.event # store.event \/ store'.tasks # store.tasks
    /\ store'.event.op = "deleteMedia"
    /\ store'.event.kind = "settle"
    /\ store'.event.outcome = "rejected"
    /\ store'.event.task.pc \in {"references", "saveItem"}
    /\ store'.event.error \in {"backend", "SchemaError", "Not authenticated"}

\* the deleteMedia saved the item of id with its cover cleared
SavedCleared(task, id) ==
    \E j \in 1..Len(task.saved) :
        /\ task.saved[j].id = id
        /\ task.saved[j].data.cover = "undefined"

\* the item of id is loaded in s and references url
References(s, id, url) ==
    \E j \in 1..Len(s.state.items) :
        /\ s.state.items[j].id = id
        /\ s.state.items[j].data.cover = url

(* C28: deleteMedia calls backend.media.deleteFile only after every loaded
   item that referenced the URL when it was called has been saved with the
   field cleared (unless the item is no longer loaded with that reference);
   when a save of a reference fails, deleteFile is not called and the local
   media list keeps the file.                                              *)
C28_DeleteAfterReferencesCleared ==
    [][ /\ DeleteFileIssued =>
            \A k \in 1..Len(store'.event.task.refs) :
                \/ SavedCleared(store'.event.task, store'.event.task.refs[k].id)
                \/ ~References(store', store'.event.task.refs[k].id,
                               store'.event.task.url)
        /\ SaveOfReferenceFails =>
               /\ store'.event.issued.method # "deleteFile"
               /\ store'.state.media = store.state.media
      ]_vars

====
